---- MODULE Spec2Model ----
(***************************************************************************)
(* Risk engine, portfolio manager, policy, TWAP executor, executor,        *)
(* regime classifier and DB logger of projects/bitcoin_trader_llm.         *)
(*                                                                         *)
(* Python floats are modelled as exact rationals <<n, d>> with d > 0 in   *)
(* lowest terms; the Python value None is the empty tuple <<>>.           *)
(* Money (NAV, PnL) is counted in units of 1,000,000 KRW.                 *)
(***************************************************************************)
EXTENDS Integers, Sequences, FiniteSets, TLC

\* ------------------------------------------------------------------------
\* Bounds of the model
\* ------------------------------------------------------------------------
MaxEvents == 3
MaxDailyPnL == 2
MaxSignals == 2
MaxLevels == 3
MaxSlices == 4
MaxPending == 2
MaxRaw == 2
MaxPoints == 5
MaxHysteresis == 2

\* config.RISK_PER_TRADE_PCT (default of the environment variable), percent
RISK_PER_TRADE_PCT == 3

\* config.MAX_SINGLE_ORDER_PCT, percent of equity
MAX_SINGLE_ORDER_PCT == 20

\* config.MIN_ORDER_KRW: 5,000 KRW; the position sizer and the TWAP
\* executor count money in units of 1,000 KRW
MIN_ORDER_KRW == 5

\* ------------------------------------------------------------------------
\* Exact arithmetic for floats
\* ------------------------------------------------------------------------
None == <<>>

Abs(x) == IF x < 0 THEN -x ELSE x

RECURSIVE GCD(_, _)
GCD(a, b) == IF b = 0 THEN a ELSE GCD(b, a % b)

Rat(n, d) ==
    LET s == IF d < 0 THEN -1 ELSE 1
        g == GCD(Abs(n), Abs(d))
    IN  <<(s * n) \div g, (s * d) \div g>>

F(n) == <<n, 1>>
RAdd(a, b) == Rat(a[1] * b[2] + b[1] * a[2], a[2] * b[2])
RSub(a, b) == Rat(a[1] * b[2] - b[1] * a[2], a[2] * b[2])
RMul(a, b) == Rat(a[1] * b[1], a[2] * b[2])
RDiv(a, b) == Rat(a[1] * b[2], a[2] * b[1])
RNeg(a) == <<-a[1], a[2]>>
RLt(a, b) == a[1] * b[2] < b[1] * a[2]
RLe(a, b) == a[1] * b[2] <= b[1] * a[2]
RMin(a, b) == IF RLt(b, a) THEN b ELSE a
RMax(a, b) == IF RLt(a, b) THEN b ELSE a
Zero == F(0)
One == F(1)
Hundred == F(100)

\* Python truthiness of an Optional[float]: None and 0.0 are falsy
Truthy(x) == x # None /\ x # Zero

\* ------------------------------------------------------------------------
\* RiskEngine
\* ------------------------------------------------------------------------
Event(type, reason) == [type |-> type, reason |-> reason]

\* dataclass construction followed by __post_init__
RiskEngine(cfg) ==
    LET min1 == IF RLt(cfg.min_risk_pct, Zero) THEN Rat(1, 100) ELSE cfg.min_risk_pct
        min2 == IF RLt(cfg.initial_risk_pct, min1) THEN cfg.initial_risk_pct ELSE min1
    IN  [initial_risk_pct |-> cfg.initial_risk_pct,
         min_risk_pct |-> min2,
         daily_loss_limit_pct |-> cfg.daily_loss_limit_pct,
         max_drawdown_limit_pct |-> cfg.max_drawdown_limit_pct,
         consecutive_losses_threshold |-> cfg.consecutive_losses_threshold,
         consecutive_loss_multiplier |-> cfg.consecutive_loss_multiplier,
         max_reduction_steps |-> cfg.max_reduction_steps,
         recovery_enabled |-> cfg.recovery_enabled,
         recovery_consec_wins |-> cfg.recovery_consec_wins,
         recovery_step_pct_of_initial |-> cfg.recovery_step_pct_of_initial,
         start_of_day_nav |-> None,
         daily_realized_pnl |-> Zero,
         peak_nav |-> None,
         current_risk_pct |-> cfg.initial_risk_pct,
         consecutive_losses |-> 0,
         consecutive_wins |-> 0,
         blocked_for_day |-> FALSE,
         daily_loss_triggers |-> 0,
         dd_triggers |-> 0,
         consecutive_loss_triggers |-> 0,
         reduction_steps |-> 0,
         events |-> <<>>]

\* on_new_day that also restores the risk cap and the reduction counter
on_new_day_resets_cap(e, nav) ==
    [e EXCEPT !.start_of_day_nav = nav,
              !.daily_realized_pnl = Zero,
              !.blocked_for_day = FALSE,
              !.peak_nav = IF e.peak_nav = None \/ RLt(e.peak_nav, nav) THEN nav ELSE @,
              !.current_risk_pct = e.initial_risk_pct,
              !.reduction_steps = 0]

on_new_day(e, nav) ==
    [e EXCEPT !.start_of_day_nav = nav,
              !.daily_realized_pnl = Zero,
              !.blocked_for_day = FALSE,
              !.peak_nav = IF e.peak_nav = None \/ RLt(e.peak_nav, nav) THEN nav ELSE @]

allow_entry(e) == ~e.blocked_for_day

\* get_effective_risk_pct that answers the cap whatever is requested
get_effective_risk_pct_cap_only(e, base_risk_pct) == e.current_risk_pct

get_effective_risk_pct(e, base_risk_pct) ==
    IF base_risk_pct = None
    THEN e.current_risk_pct
    ELSE RMin(base_risk_pct, e.current_risk_pct)

\* _apply_reduction whose step limit is off by one
_apply_reduction_late_limit(e, reason) ==
    IF e.reduction_steps > e.max_reduction_steps
    THEN [e EXCEPT !.events = Append(@, Event("reduction_limited", reason))]
    ELSE LET old == e.current_risk_pct
             new == RMax(RMul(e.current_risk_pct, e.consecutive_loss_multiplier),
                         e.min_risk_pct)
         IN  IF new # old
             THEN [e EXCEPT !.current_risk_pct = new,
                            !.reduction_steps = @ + 1,
                            !.consecutive_loss_triggers = @ + 1,
                            !.events = Append(@, Event("risk_reduction", reason))]
             ELSE e

\* _apply_reduction without the floor
_apply_reduction_no_floor(e, reason) ==
    IF e.reduction_steps >= e.max_reduction_steps
    THEN [e EXCEPT !.events = Append(@, Event("reduction_limited", reason))]
    ELSE LET old == e.current_risk_pct
             new == RMul(e.current_risk_pct, e.consecutive_loss_multiplier)
         IN  IF new # old
             THEN [e EXCEPT !.current_risk_pct = new,
                            !.reduction_steps = @ + 1,
                            !.consecutive_loss_triggers = @ + 1,
                            !.events = Append(@, Event("risk_reduction", reason))]
             ELSE e

_apply_reduction(e, reason) ==
    IF e.reduction_steps >= e.max_reduction_steps
    THEN [e EXCEPT !.events = Append(@, Event("reduction_limited", reason))]
    ELSE LET old == e.current_risk_pct
             prod == RMul(e.current_risk_pct, e.consecutive_loss_multiplier)
             new == IF RLt(prod, e.min_risk_pct) THEN e.min_risk_pct ELSE prod
         IN  IF new # old
             THEN [e EXCEPT !.current_risk_pct = new,
                            !.reduction_steps = @ + 1,
                            !.consecutive_loss_triggers = @ + 1,
                            !.events = Append(@, Event("risk_reduction", reason))]
             ELSE e

\* _attempt_recovery that gives a reduction step back
_attempt_recovery_returns_step(e) ==
    IF ~e.recovery_enabled
    THEN e
    ELSE IF RLe(e.initial_risk_pct, e.current_risk_pct)
    THEN e
    ELSE LET step == RMul(e.initial_risk_pct, e.recovery_step_pct_of_initial)
             cand1 == RAdd(e.current_risk_pct, step)
             candidate == IF RLt(e.initial_risk_pct, cand1) THEN e.initial_risk_pct ELSE cand1
         IN  IF RLt(e.current_risk_pct, candidate)
             THEN [e EXCEPT !.current_risk_pct = candidate,
                            !.reduction_steps = IF @ > 0 THEN @ - 1 ELSE 0,
                            !.events = Append(@, Event("risk_recovery", "none"))]
             ELSE e

_attempt_recovery(e) ==
    IF ~e.recovery_enabled
    THEN e
    ELSE IF RLe(e.initial_risk_pct, e.current_risk_pct)
    THEN e
    ELSE LET step == RMul(e.initial_risk_pct, e.recovery_step_pct_of_initial)
             cand1 == RAdd(e.current_risk_pct, step)
             candidate == IF RLt(e.initial_risk_pct, cand1) THEN e.initial_risk_pct ELSE cand1
         IN  IF RLt(e.current_risk_pct, candidate)
             THEN [e EXCEPT !.current_risk_pct = candidate,
                            !.events = Append(@, Event("risk_recovery", "none"))]
             ELSE e

\* record_trade_result, step 1: accumulate today's realized PnL
accumulate_pnl(e, pnl) ==
    [e EXCEPT !.daily_realized_pnl = RAdd(@, pnl)]

\* record_trade_result, step 2: consecutive win/loss trackers
update_streaks(e, pnl) ==
    IF RLe(pnl, Zero)
    THEN [e EXCEPT !.consecutive_losses = @ + 1, !.consecutive_wins = 0]
    ELSE [e EXCEPT !.consecutive_wins = @ + 1, !.consecutive_losses = 0]

\* record_trade_result, step 3: peak NAV
update_peak(e, nav_after) ==
    IF e.peak_nav = None
    THEN [e EXCEPT !.peak_nav = nav_after]
    ELSE IF RLt(e.peak_nav, nav_after)
         THEN [e EXCEPT !.peak_nav = nav_after]
         ELSE e

\* the local variable drawdown of record_trade_result (percent)
drawdown(e, nav_after) ==
    IF Truthy(e.peak_nav) /\ RLt(Zero, e.peak_nav)
    THEN RMul(RDiv(RSub(e.peak_nav, nav_after), e.peak_nav), Hundred)
    ELSE Zero

\* the local variable daily_loss_pct of record_trade_result (percent)
daily_loss_pct(e) ==
    IF RLt(e.daily_realized_pnl, Zero)
    THEN RMul(RDiv(RNeg(e.daily_realized_pnl), e.start_of_day_nav), Hundred)
    ELSE Zero

\* check_daily_loss with a strict comparison against the limit
check_daily_loss_strict(e) ==
    IF Truthy(e.start_of_day_nav) /\ RLt(Zero, e.start_of_day_nav)
    THEN IF RLt(e.daily_loss_limit_pct, daily_loss_pct(e)) /\ ~e.blocked_for_day
         THEN [e EXCEPT !.blocked_for_day = TRUE,
                        !.daily_loss_triggers = @ + 1,
                        !.events = Append(@, Event("daily_loss_limit", "none"))]
         ELSE e
    ELSE e

\* check_daily_loss that follows today's PnL instead of latching
check_daily_loss_unlatched(e) ==
    IF Truthy(e.start_of_day_nav) /\ RLt(Zero, e.start_of_day_nav)
    THEN IF RLe(e.daily_loss_limit_pct, daily_loss_pct(e))
         THEN IF e.blocked_for_day
              THEN e
              ELSE [e EXCEPT !.blocked_for_day = TRUE,
                             !.daily_loss_triggers = @ + 1,
                             !.events = Append(@, Event("daily_loss_limit", "none"))]
         ELSE [e EXCEPT !.blocked_for_day = FALSE]
    ELSE e

\* check_daily_loss that blocks on any loss while no positive start-of-day
\* NAV is known
check_daily_loss_fail_closed(e) ==
    IF Truthy(e.start_of_day_nav) /\ RLt(Zero, e.start_of_day_nav)
    THEN IF RLe(e.daily_loss_limit_pct, daily_loss_pct(e)) /\ ~e.blocked_for_day
         THEN [e EXCEPT !.blocked_for_day = TRUE,
                        !.daily_loss_triggers = @ + 1,
                        !.events = Append(@, Event("daily_loss_limit", "none"))]
         ELSE e
    ELSE IF RLt(e.daily_realized_pnl, Zero) /\ ~e.blocked_for_day
    THEN [e EXCEPT !.blocked_for_day = TRUE,
                   !.daily_loss_triggers = @ + 1,
                   !.events = Append(@, Event("daily_loss_limit", "none"))]
    ELSE e

\* record_trade_result, step 4: daily loss trigger
check_daily_loss(e) ==
    IF Truthy(e.start_of_day_nav) /\ RLt(Zero, e.start_of_day_nav)
    THEN IF RLe(e.daily_loss_limit_pct, daily_loss_pct(e)) /\ ~e.blocked_for_day
         THEN [e EXCEPT !.blocked_for_day = TRUE,
                        !.daily_loss_triggers = @ + 1,
                        !.events = Append(@, Event("daily_loss_limit", "none"))]
         ELSE e
    ELSE e

\* check_consecutive_losses that keeps the streak after the reduction
check_consecutive_losses_no_reset(e) ==
    IF e.consecutive_losses >= e.consecutive_losses_threshold
    THEN _apply_reduction(e, "consecutive_losses")
    ELSE e

\* record_trade_result, step 5: consecutive losses trigger
check_consecutive_losses(e) ==
    IF e.consecutive_losses >= e.consecutive_losses_threshold
    THEN [_apply_reduction(e, "consecutive_losses") EXCEPT !.consecutive_losses = 0]
    ELSE e

\* check_drawdown that fires only above the limit
check_drawdown_strict(e, dd) ==
    IF RLt(e.max_drawdown_limit_pct, dd)
    THEN _apply_reduction(e, "max_drawdown")
    ELSE e

\* record_trade_result, step 6: drawdown trigger
check_drawdown(e, dd) ==
    IF RLe(e.max_drawdown_limit_pct, dd)
    THEN _apply_reduction(e, "max_drawdown")
    ELSE e

\* check_recovery that keeps the streak when the recovery changes nothing
check_recovery_keeps_streak(e) ==
    IF e.consecutive_wins >= e.recovery_consec_wins
    THEN LET r == _attempt_recovery(e)
         IN  IF r = e THEN e ELSE [r EXCEPT !.consecutive_wins = 0]
    ELSE e

\* record_trade_result, step 7: recovery on consecutive wins
check_recovery(e) ==
    IF e.consecutive_wins >= e.recovery_consec_wins
    THEN [_attempt_recovery(e) EXCEPT !.consecutive_wins = 0]
    ELSE e

record_trade_result(e, pnl, nav_after) ==
    LET e1 == accumulate_pnl(e, pnl)
        e2 == update_streaks(e1, pnl)
        e3 == update_peak(e2, nav_after)
        dd == drawdown(e3, nav_after)
        e4 == check_daily_loss(e3)
        e5 == check_consecutive_losses(e4)
        e6 == check_drawdown(e5, dd)
    IN  check_recovery(e6)

\* evaluate_proposal returns the decision; the engine's event log may grow.
\* A proposal is a dict (record) with a suggested_risk_pct entry; None or 0.0
\* there is falsy, and ProposedPosition has no suggested_risk entry, so the
\* code falls back to initial_risk_pct.
Decision(allow, scale, adjusted, reason, evts) ==
    [allow |-> allow, scale |-> scale, adjusted_risk_pct |-> adjusted,
     reason |-> reason, events |-> evts]

base_risk_of(e, proposal) ==
    IF Truthy(proposal.suggested_risk_pct)
    THEN proposal.suggested_risk_pct
    ELSE e.initial_risk_pct

\* evaluate_unblocked without the clamp of the scale to 1
evaluate_unblocked_unclamped(e, proposal) ==
    LET base_risk == base_risk_of(e, proposal)
    IN  IF RLe(base_risk, Zero)
        THEN [decision |-> Decision(TRUE, One, e.initial_risk_pct, "no_base_risk", <<>>),
              engine |-> e]
        ELSE LET scale == RDiv(e.current_risk_pct, base_risk)
                 adjusted == RMul(base_risk, scale)
             IN  IF RLe(scale, Zero)
                 THEN LET evt == Event("risk_vetoed", "scale_zero")
                      IN  [decision |-> Decision(FALSE, Zero, Zero, "scale_zero", <<evt>>),
                           engine |-> [e EXCEPT !.events = Append(@, evt)]]
                 ELSE IF RLt(scale, One)
                 THEN LET evt == Event("risk_scaled", "cap_enforced_current_risk")
                      IN  [decision |-> Decision(TRUE, scale, adjusted,
                                                 "cap_enforced_current_risk", <<evt>>),
                           engine |-> [e EXCEPT !.events = Append(@, evt)]]
                 ELSE [decision |-> Decision(TRUE, scale, adjusted, "ok", <<>>),
                       engine |-> e]

\* evaluate_proposal on an engine that is not blocked for the day
evaluate_unblocked(e, proposal) ==
    LET base_risk == base_risk_of(e, proposal)
    IN  IF RLe(base_risk, Zero)
        THEN [decision |-> Decision(TRUE, One, e.initial_risk_pct, "no_base_risk", <<>>),
              engine |-> e]
        ELSE LET ratio == RDiv(e.current_risk_pct, base_risk)
                 scale == IF RLt(One, ratio) THEN One ELSE ratio
                 adjusted == RMul(base_risk, scale)
             IN  IF RLe(ratio, Zero)
                 THEN LET evt == Event("risk_vetoed", "scale_zero")
                      IN  [decision |-> Decision(FALSE, Zero, Zero, "scale_zero", <<evt>>),
                           engine |-> [e EXCEPT !.events = Append(@, evt)]]
                 ELSE IF RLt(scale, One)
                 THEN LET evt == Event("risk_scaled", "cap_enforced_current_risk")
                      IN  [decision |-> Decision(TRUE, scale, adjusted,
                                                 "cap_enforced_current_risk", <<evt>>),
                           engine |-> [e EXCEPT !.events = Append(@, evt)]]
                 ELSE [decision |-> Decision(TRUE, One, adjusted, "ok", <<>>),
                       engine |-> e]

\* evaluate_proposal whose daily veto is returned but not logged
evaluate_proposal_veto_unlogged(e, proposal) ==
    IF e.blocked_for_day
    THEN LET evt == Event("risk_vetoed", "daily_loss_blocked")
         IN  [decision |-> Decision(FALSE, Zero, Zero, "daily_loss_blocked", <<evt>>),
              engine |-> e]
    ELSE evaluate_unblocked(e, proposal)

\* evaluate_proposal without the daily block
evaluate_proposal_no_veto(e, proposal) == evaluate_unblocked(e, proposal)

evaluate_proposal(e, proposal) ==
    IF e.blocked_for_day
    THEN LET evt == Event("risk_vetoed", "daily_loss_blocked")
         IN  [decision |-> Decision(FALSE, Zero, Zero, "daily_loss_blocked", <<evt>>),
              engine |-> [e EXCEPT !.events = Append(@, evt)]]
    ELSE evaluate_unblocked(e, proposal)

\* ------------------------------------------------------------------------
\* PortfolioManager
\* ------------------------------------------------------------------------
\* constructor defaults agent_weight=0.6, rule_weight=0.2
agent_weight == Rat(3, 5)
rule_weight == Rat(1, 5)

\* sort key of a signal: (confidence or 0.0, score)
sort_key(s) == <<IF Truthy(s.confidence) THEN s.confidence ELSE Zero, s.score>>

KeyLt(a, b) == RLt(a[1], b[1]) \/ (a[1] = b[1] /\ RLt(a[2], b[2]))

\* representative that lets the last of the equally ranked signals win
representative_last(sigs) ==
    LET best(i) == \A j \in 1..Len(sigs) : ~KeyLt(sort_key(sigs[i]), sort_key(sigs[j]))
        k == CHOOSE i \in 1..Len(sigs) :
                 best(i) /\ \A j \in (i + 1)..Len(sigs) : ~best(j)
    IN  sigs[k]

\* sorted(sigs, key=..., reverse=True)[0]: the sort is stable, so among the
\* signals with the greatest key the one that comes first in the list wins
representative(sigs) ==
    LET best(i) == \A j \in 1..Len(sigs) : ~KeyLt(sort_key(sigs[i]), sort_key(sigs[j]))
        k == CHOOSE i \in 1..Len(sigs) :
                 best(i) /\ \A j \in 1..(i - 1) : ~best(j)
    IN  sigs[k]

\* [s for s in sigs if s.source == src]
RECURSIVE of_source(_, _)
of_source(sigs, src) ==
    IF sigs = <<>> THEN <<>>
    ELSE IF Head(sigs).source = src
         THEN <<Head(sigs)>> \o of_source(Tail(sigs), src)
         ELSE of_source(Tail(sigs), src)

RECURSIVE of_symbol(_, _)
of_symbol(sigs, sym) ==
    IF sigs = <<>> THEN <<>>
    ELSE IF Head(sigs).symbol = sym
         THEN <<Head(sigs)>> \o of_symbol(Tail(sigs), sym)
         ELSE of_symbol(Tail(sigs), sym)

\* keys of _group_by_symbol(), in insertion order
RECURSIVE symbols_in_order(_, _)
symbols_in_order(sigs, seen) ==
    IF sigs = <<>> THEN <<>>
    ELSE IF Head(sigs).symbol \in seen
         THEN symbols_in_order(Tail(sigs), seen)
         ELSE <<Head(sigs).symbol>> \o symbols_in_order(Tail(sigs), seen \cup {Head(sigs).symbol})

\* the body of the loop of propose_positions for one symbol: <<>> when the
\* symbol is skipped, else a one-element list holding the proposal
propose_for_symbol(symbol, sigs, equity, price_hint) ==
    LET agent_sigs == of_source(sigs, "agent")
        rule_sigs == of_source(sigs, "rule")
        has_agent == agent_sigs # <<>>
        has_rule == rule_sigs # <<>>
        agent_rep == representative(agent_sigs)
        rule_rep == representative(rule_sigs)
        weighted == RAdd(IF has_agent THEN RMul(agent_weight, agent_rep.score) ELSE Zero,
                         IF has_rule THEN RMul(rule_weight, rule_rep.score) ELSE Zero)
        total_weight == RAdd(IF has_agent THEN agent_weight ELSE Zero,
                             IF has_rule THEN rule_weight ELSE Zero)
        suggested_risk_pct ==
            IF has_agent /\ agent_rep.suggested_risk_pct # None THEN agent_rep.suggested_risk_pct
            ELSE IF has_rule /\ rule_rep.suggested_risk_pct # None THEN rule_rep.suggested_risk_pct
            ELSE F(RISK_PER_TRADE_PCT)
        stop_pct ==
            IF has_agent /\ agent_rep.suggested_stop_pct # None THEN agent_rep.suggested_stop_pct
            ELSE IF has_rule /\ rule_rep.suggested_stop_pct # None THEN rule_rep.suggested_stop_pct
            ELSE One
        entry_price ==
            IF Truthy(price_hint) THEN price_hint
            ELSE IF has_agent /\ Truthy(agent_rep.entry_price) THEN agent_rep.entry_price
            ELSE One
        desired_dollar_risk == RMul(RDiv(suggested_risk_pct, Hundred), equity)
        stop_frac == RMax(RDiv(stop_pct, Hundred), Rat(1, 1000000))
        suggested_notional == RDiv(desired_dollar_risk, stop_frac)
        units == RDiv(suggested_notional, entry_price)
    IN  IF total_weight = Zero
        THEN <<>>
        ELSE << [symbol |-> symbol,
                 side |-> IF has_agent THEN agent_rep.side ELSE rule_rep.side,
                 entry_price_hint |-> entry_price,
                 suggested_notional |-> suggested_notional,
                 suggested_risk_pct |-> suggested_risk_pct,
                 suggested_stop_pct |-> stop_pct,
                 units |-> units,
                 combined_score |-> RDiv(weighted, total_weight),
                 components |-> (IF has_agent THEN <<agent_rep>> ELSE <<>>)
                                \o (IF has_rule THEN <<rule_rep>> ELSE <<>>)] >>

RECURSIVE propose_loop(_, _, _, _)
propose_loop(symbols, sigs, equity, price_hint) ==
    IF symbols = <<>> THEN <<>>
    ELSE propose_for_symbol(Head(symbols), of_symbol(sigs, Head(symbols)), equity, price_hint)
         \o propose_loop(Tail(symbols), sigs, equity, price_hint)

propose_positions(sigs, equity, price_hint) ==
    propose_loop(symbols_in_order(sigs, {}), sigs, equity, price_hint)

\* apply_risk_engine that passes every allowed proposal on at full size
RECURSIVE apply_risk_engine_full_size(_, _)
apply_risk_engine_full_size(e, props) ==
    IF props = <<>>
    THEN [decisions |-> <<>>, engine |-> e]
    ELSE LET r == evaluate_proposal(e, Head(props))
             rest == apply_risk_engine_full_size(r.engine, Tail(props))
         IN  [decisions |-> <<[allow |-> r.decision.allow,
                               scale |-> IF r.decision.allow THEN One ELSE Zero,
                               adjusted_risk_pct |-> r.decision.adjusted_risk_pct,
                               reason |-> r.decision.reason,
                               events |-> r.decision.events,
                               proposal |-> Head(props)]>> \o rest.decisions,
              engine |-> rest.engine]

\* one evaluate_proposal call per proposal, in order; the decision carries
\* the proposal
RECURSIVE apply_risk_engine(_, _)
apply_risk_engine(e, props) ==
    IF props = <<>>
    THEN [decisions |-> <<>>, engine |-> e]
    ELSE LET r == evaluate_proposal(e, Head(props))
             rest == apply_risk_engine(r.engine, Tail(props))
         IN  [decisions |-> <<[allow |-> r.decision.allow,
                               scale |-> r.decision.scale,
                               adjusted_risk_pct |-> r.decision.adjusted_risk_pct,
                               reason |-> r.decision.reason,
                               events |-> r.decision.events,
                               proposal |-> Head(props)]>> \o rest.decisions,
              engine |-> rest.engine]

\* order_for_decision that forgets to apply the scale
order_for_decision_unscaled(dec) ==
    LET scale == IF dec.allow THEN dec.scale ELSE Zero
    IN  IF ~dec.allow \/ RLe(scale, Zero)
        THEN <<>>
        ELSE LET units == dec.proposal.units
             IN  << [symbol |-> dec.proposal.symbol,
                     side |-> dec.proposal.side,
                     units |-> units,
                     notional |-> RMul(units, dec.proposal.entry_price_hint),
                     entry_type |-> "market",
                     decision_reason |-> dec.reason] >>

\* the body of the loop of finalize_orders for one decision
order_for_decision(dec) ==
    LET scale == IF dec.allow THEN dec.scale ELSE Zero
    IN  IF ~dec.allow \/ RLe(scale, Zero)
        THEN <<>>
        ELSE LET units == RMul(dec.proposal.units, scale)
             IN  << [symbol |-> dec.proposal.symbol,
                     side |-> dec.proposal.side,
                     units |-> units,
                     notional |-> RMul(units, dec.proposal.entry_price_hint),
                     entry_type |-> "market",
                     decision_reason |-> dec.reason] >>

RECURSIVE finalize_loop(_)
finalize_loop(decs) ==
    IF decs = <<>> THEN <<>>
    ELSE order_for_decision(Head(decs)) \o finalize_loop(Tail(decs))

\* payload of the trace that leaves out the vetoed decisions
trace_payload_allowed_only(sigs, decs, ords, equity) ==
    LET kept == SelectSeq(decs, LAMBDA d : d.allow)
    IN  [equity |-> equity,
         signals |-> sigs,
         proposals |-> [i \in 1..Len(kept) |-> kept[i].proposal],
         risk_decisions |-> kept,
         orders |-> ords]

\* payload of audit_trace
trace_payload(sigs, decs, ords, equity) ==
    [equity |-> equity,
     signals |-> sigs,
     proposals |-> [i \in 1..Len(decs) |-> decs[i].proposal],
     risk_decisions |-> decs,
     orders |-> ords]

\* audit_trace: the write is best-effort; write_ok is whether open() and
\* json.dump() succeed.  file is what the call leaves on disk, path what it
\* returns ('' after a failed write)
audit_trace(sigs, decs, ords, equity, write_ok) ==
    [path |-> IF write_ok THEN "trace_id.json" ELSE "",
     file |-> IF write_ok THEN <<trace_payload(sigs, decs, ords, equity)>> ELSE <<>>]

\* finalize_orders that lets the exception of a failed write escape
finalize_orders_write_raises(sigs, decs, equity, write_ok) ==
    LET ords == finalize_loop(decs)
        t == audit_trace(sigs, decs, ords, equity, write_ok)
    IN  IF write_ok
        THEN [returned |-> ords, raised |-> FALSE, file |-> t.file]
        ELSE [returned |-> <<>>, raised |-> TRUE, file |-> <<>>]

\* finalize_orders: the loop over the decisions, then audit_trace, whose
\* return value (trace_path) is not used; returns the orders
finalize_orders(sigs, decs, equity, write_ok) ==
    LET ords == finalize_loop(decs)
        t == audit_trace(sigs, decs, ords, equity, write_ok)
    IN  [returned |-> ords, raised |-> FALSE, file |-> t.file]

\* ------------------------------------------------------------------------
\* policy: position sizing
\* ------------------------------------------------------------------------
\* the guard of the division in size_from_risk, 1e-6
UNIT_RISK_FLOOR == Rat(1, 1000000)

\* size_from_risk that refuses a position above the cap instead of
\* clamping it
size_from_risk_reject_above_cap(equity_krw, entry_price, stop_price, risk_pct) ==
    LET pct == IF risk_pct = None THEN F(RISK_PER_TRADE_PCT) ELSE risk_pct
        risk_krw == RMul(equity_krw, RDiv(pct, Hundred))
        unit_risk == RMax(RSub(entry_price, stop_price), UNIT_RISK_FLOOR)
        raw == RMul(RDiv(risk_krw, unit_risk), entry_price)
        cap == RMul(equity_krw, RDiv(F(MAX_SINGLE_ORDER_PCT), Hundred))
    IN  IF RLt(cap, raw) \/ RLt(raw, F(MIN_ORDER_KRW))
        THEN [position_krw |-> Zero, amount |-> Zero, actual_risk_pct |-> Zero]
        ELSE [position_krw |-> raw,
              amount |-> RDiv(raw, entry_price),
              actual_risk_pct |->
                  IF RLt(Zero, equity_krw)
                  THEN RMul(RDiv(RDiv(RMul(raw, unit_risk), entry_price),
                                 equity_krw), Hundred)
                  ELSE Zero]

\* size_from_risk without the cap at MAX_SINGLE_ORDER_PCT of equity
size_from_risk_uncapped(equity_krw, entry_price, stop_price, risk_pct) ==
    LET pct == IF risk_pct = None THEN F(RISK_PER_TRADE_PCT) ELSE risk_pct
        risk_krw == RMul(equity_krw, RDiv(pct, Hundred))
        unit_risk == RMax(RSub(entry_price, stop_price), UNIT_RISK_FLOOR)
        position_krw == RMul(RDiv(risk_krw, unit_risk), entry_price)
    IN  IF RLt(position_krw, F(MIN_ORDER_KRW))
        THEN [position_krw |-> Zero, amount |-> Zero, actual_risk_pct |-> Zero]
        ELSE [position_krw |-> position_krw,
              amount |-> RDiv(position_krw, entry_price),
              actual_risk_pct |->
                  IF RLt(Zero, equity_krw)
                  THEN RMul(RDiv(RDiv(RMul(position_krw, unit_risk), entry_price),
                                 equity_krw), Hundred)
                  ELSE Zero]

\* size_from_risk
size_from_risk(equity_krw, entry_price, stop_price, risk_pct) ==
    LET pct == IF risk_pct = None THEN F(RISK_PER_TRADE_PCT) ELSE risk_pct
        risk_krw == RMul(equity_krw, RDiv(pct, Hundred))
        unit_risk == RMax(RSub(entry_price, stop_price), UNIT_RISK_FLOOR)
        raw == IF RLt(Zero, unit_risk)
               THEN RMul(RDiv(risk_krw, unit_risk), entry_price) ELSE Zero
        cap == RMul(equity_krw, RDiv(F(MAX_SINGLE_ORDER_PCT), Hundred))
        position_krw == IF RLt(cap, raw) THEN cap ELSE raw
    IN  IF RLt(position_krw, F(MIN_ORDER_KRW))
        THEN [position_krw |-> Zero, amount |-> Zero, actual_risk_pct |-> Zero]
        ELSE [position_krw |-> position_krw,
              amount |-> RDiv(position_krw, entry_price),
              actual_risk_pct |->
                  IF RLt(Zero, equity_krw)
                  THEN RMul(RDiv(RDiv(RMul(position_krw, unit_risk), entry_price),
                                 equity_krw), Hundred)
                  ELSE Zero]

\* ------------------------------------------------------------------------
\* policy: order-book depth
\* ------------------------------------------------------------------------
RAbs(a) == <<Abs(a[1]), a[2]>>

\* one entry of a normalized book
Level(price, size) == [price |-> price, size |-> size, krw |-> RMul(price, size)]

\* sorted(levels, key=price) for asks, key=-price for bids (stable)
RECURSIVE insert_by_price(_, _, _)
insert_by_price(sorted, lvl, descending) ==
    IF sorted = <<>> THEN <<lvl>>
    ELSE LET before == IF descending THEN RLe(lvl.price, Head(sorted).price)
                       ELSE RLe(Head(sorted).price, lvl.price)
         IN  IF before
             THEN <<Head(sorted)>> \o insert_by_price(Tail(sorted), lvl, descending)
             ELSE <<lvl>> \o sorted

RECURSIVE sorted_by_price(_, _)
sorted_by_price(levels, descending) ==
    IF levels = <<>> THEN <<>>
    ELSE insert_by_price(sorted_by_price(SubSeq(levels, 1, Len(levels) - 1), descending),
                         levels[Len(levels)], descending)

\* a value float() rejects (a word, a list): no rational has denominator 0
NotANumber == <<0, 0>>

\* an order-book argument as Python sees it.  shape: "falsy" (None, [], {},
\* 0), "dict", "list" (a non-empty list; the other fields describe its
\* first element, a dict) or "other" (any other value, or a list whose first
\* element is no dict).  units is the value under 'orderbook_units' and
\* asks, bids the values under 'asks' and 'bids' when they are lists;
\* units_ok = FALSE stands for a truthy value under 'orderbook_units' that
\* cannot be iterated (a number), lists_ok = FALSE for such a value under
\* 'asks' or 'bids'.  A price or size is a number, None (absent or None) or
\* NotANumber; a member that is no dict and has no [0] counts as all None.
RawBook(shape, units, units_ok, asks, bids, lists_ok) ==
    [shape |-> shape, units |-> units, units_ok |-> units_ok,
     asks |-> asks, bids |-> bids, lists_ok |-> lists_ok]

\* a dict with 'asks' and 'bids' lists
DictBook(asks, bids) == RawBook("dict", <<>>, TRUE, asks, bids, TRUE)

\* a missing order book (None or a dict with empty lists): no asks, no bids
NoBook == DictBook(<<>>, <<>>)

\* float(v or 0) of the pyupbit branch and float(v) of the dict branch:
\* the number, or a raised exception
float_or_zero(v) ==
    IF v = NotANumber THEN [raised |-> TRUE, value |-> Zero]
    ELSE [raised |-> FALSE, value |-> IF v = None THEN Zero ELSE v]

float_of(v) ==
    IF v = NotANumber \/ v = None THEN [raised |-> TRUE, value |-> Zero]
    ELSE [raised |-> FALSE, value |-> v]

\* the loop over 'orderbook_units': an exception inside a unit skips the
\* rest of that unit (an ask appended before it stays)
RECURSIVE normalize_units(_, _, _)
normalize_units(units, asks, bids) ==
    IF units = <<>> THEN [asks |-> asks, bids |-> bids]
    ELSE LET u == Head(units)
             ap == float_or_zero(u.ask_price)
             as == float_or_zero(u.ask_size)
             bp == float_or_zero(u.bid_price)
             bs == float_or_zero(u.bid_size)
             has_ask == u.ask_price # None
             has_bid == u.bid_price # None
             ask_raises == has_ask /\ (ap.raised \/ as.raised)
             bid_raises == has_bid /\ (bp.raised \/ bs.raised)
             asks1 == IF has_ask /\ ~ask_raises
                      THEN Append(asks, Level(ap.value, as.value)) ELSE asks
             bids1 == IF has_bid /\ ~ask_raises /\ ~bid_raises
                      THEN Append(bids, Level(bp.value, bs.value)) ELSE bids
         IN  normalize_units(Tail(units), asks1, bids1)

\* the loop over 'asks' or 'bids' of a dict: a member whose price or size
\* float() rejects is skipped
RECURSIVE normalize_levels(_)
normalize_levels(raw) ==
    IF raw = <<>> THEN <<>>
    ELSE LET p == float_of(Head(raw).price)
             sz == float_of(Head(raw).size)
         IN  (IF p.raised \/ sz.raised THEN <<>> ELSE <<Level(p.value, sz.value)>>)
             \o normalize_levels(Tail(raw))

\* the result of _normalize_orderbook, or the exception it raised
Normalized(asks, bids) == [raised |-> FALSE, asks |-> asks, bids |-> bids]
NormalizeRaises == [raised |-> TRUE, asks |-> <<>>, bids |-> <<>>]

\* _normalize_orderbook: the loop over 'orderbook_units' is outside every
\* try, so a value there that cannot be iterated raises; the dict branch is
\* inside one and gives the empty book instead
_normalize_orderbook(ob) ==
    IF ob.shape \in {"falsy", "other"} THEN Normalized(<<>>, <<>>)
    ELSE IF ~ob.units_ok THEN NormalizeRaises
    ELSE IF ob.units # <<>>
    THEN LET r == normalize_units(ob.units, <<>>, <<>>)
         IN  Normalized(sorted_by_price(r.asks, FALSE), sorted_by_price(r.bids, TRUE))
    ELSE IF ~ob.lists_ok THEN Normalized(<<>>, <<>>)
    ELSE IF ob.asks # <<>> \/ ob.bids # <<>>
    THEN Normalized(sorted_by_price(normalize_levels(ob.asks), FALSE),
                    sorted_by_price(normalize_levels(ob.bids), TRUE))
    ELSE Normalized(<<>>, <<>>)

\* side.lower().startswith('b')
is_buy(side) == side = "buy"

\* the loop of estimate_slippage_for_notional (the same on both sides):
\* the amounts taken from the levels until the notional is filled
RECURSIVE consume_levels(_, _, _, _)
consume_levels(levels, remaining, sum_amount, sum_krw) ==
    IF levels = <<>>
    THEN [remaining |-> remaining, sum_amount |-> sum_amount, sum_krw |-> sum_krw]
    ELSE LET lvl == Head(levels)
         IN  IF RLe(lvl.krw, Zero)
             THEN consume_levels(Tail(levels), remaining, sum_amount, sum_krw)
             ELSE IF RLe(remaining, lvl.krw)
             THEN LET amount_needed == RDiv(remaining, lvl.price)
                  IN  [remaining |-> Zero,
                       sum_amount |-> RAdd(sum_amount, amount_needed),
                       sum_krw |-> RAdd(sum_krw, RMul(amount_needed, lvl.price))]
             ELSE consume_levels(Tail(levels), RSub(remaining, lvl.krw),
                                 RAdd(sum_amount, lvl.size), RAdd(sum_krw, lvl.krw))

\* estimate_slippage_for_notional that reports the magnitude on both sides
estimate_slippage_for_notional_abs_buy(orderbook, side, notional_krw, best_price) ==
    LET nb == _normalize_orderbook(orderbook)
        levels == IF is_buy(side) THEN nb.asks ELSE nb.bids
    IN  IF nb.raised \/ levels = <<>> THEN None
        ELSE LET best == IF best_price = None THEN levels[1].price ELSE best_price
                 c == consume_levels(levels, notional_krw, Zero, Zero)
             IN  IF RLt(Zero, c.remaining) THEN None
                 ELSE IF RLe(c.sum_amount, Zero) THEN None
                 ELSE IF best = Zero THEN None
                 ELSE LET weighted_avg == RDiv(c.sum_krw, c.sum_amount)
                      IN  RAbs(RDiv(RSub(weighted_avg, best), best))

\* estimate_slippage_for_notional: None for an empty side, for a notional
\* the side cannot fill, for nothing consumed, and when the division by
\* best raises (best = 0, caught by the except branch)
estimate_slippage_for_notional(orderbook, side, notional_krw, best_price) ==
    LET nb == _normalize_orderbook(orderbook)
        levels == IF is_buy(side) THEN nb.asks ELSE nb.bids
    IN  IF nb.raised \/ levels = <<>> THEN None
        ELSE LET best == IF best_price = None THEN levels[1].price ELSE best_price
                 c == consume_levels(levels, notional_krw, Zero, Zero)
             IN  IF RLt(Zero, c.remaining) THEN None
                 ELSE IF RLe(c.sum_amount, Zero) THEN None
                 ELSE IF best = Zero THEN None
                 ELSE LET weighted_avg == RDiv(c.sum_krw, c.sum_amount)
                      IN  IF is_buy(side)
                          THEN RSub(RDiv(weighted_avg, best), One)
                          ELSE RAbs(RDiv(RSub(weighted_avg, best), best))

\* the value returned where the walk stops without a partial level
krw_or_none(cum_krw) == IF RLt(Zero, cum_krw) THEN cum_krw ELSE None

\* the buy loop that takes the whole of the level that breaches the target
RECURSIVE max_notional_buy_no_partial(_, _, _, _)
max_notional_buy_no_partial(levels, target, cum_amount, cum_krw) ==
    IF levels = <<>> THEN krw_or_none(cum_krw)
    ELSE LET p == Head(levels).price
             sz == Head(levels).size
             new_cum_amount == RAdd(cum_amount, sz)
             new_cum_krw == RAdd(cum_krw, RMul(p, sz))
         IN  IF RLe(new_cum_amount, Zero)
             THEN max_notional_buy_no_partial(Tail(levels), target,
                                              new_cum_amount, new_cum_krw)
             ELSE IF RLe(RDiv(new_cum_krw, new_cum_amount), target)
             THEN max_notional_buy_no_partial(Tail(levels), target,
                                              new_cum_amount, new_cum_krw)
             ELSE new_cum_krw

\* the buy loop that stops before the level that breaches the target
RECURSIVE max_notional_buy_stops_at_breach(_, _, _, _)
max_notional_buy_stops_at_breach(levels, target, cum_amount, cum_krw) ==
    IF levels = <<>> THEN krw_or_none(cum_krw)
    ELSE LET p == Head(levels).price
             sz == Head(levels).size
             new_cum_amount == RAdd(cum_amount, sz)
             new_cum_krw == RAdd(cum_krw, RMul(p, sz))
         IN  IF RLe(new_cum_amount, Zero)
             THEN max_notional_buy_stops_at_breach(Tail(levels), target,
                                                   new_cum_amount, new_cum_krw)
             ELSE IF RLe(RDiv(new_cum_krw, new_cum_amount), target)
             THEN max_notional_buy_stops_at_breach(Tail(levels), target,
                                                   new_cum_amount, new_cum_krw)
             ELSE krw_or_none(cum_krw)

\* the loop of compute_max_notional_for_slippage over the asks
RECURSIVE max_notional_buy(_, _, _, _)
max_notional_buy(levels, target, cum_amount, cum_krw) ==
    IF levels = <<>> THEN krw_or_none(cum_krw)
    ELSE LET p == Head(levels).price
             sz == Head(levels).size
             new_cum_amount == RAdd(cum_amount, sz)
             new_cum_krw == RAdd(cum_krw, RMul(p, sz))
         IN  IF RLe(new_cum_amount, Zero)
             THEN max_notional_buy(Tail(levels), target, new_cum_amount, new_cum_krw)
             ELSE IF RLe(RDiv(new_cum_krw, new_cum_amount), target)
             THEN max_notional_buy(Tail(levels), target, new_cum_amount, new_cum_krw)
             ELSE LET denom == RSub(p, target)
                  IN  IF RLe(denom, Zero)
                      THEN max_notional_buy(Tail(levels), target,
                                            new_cum_amount, new_cum_krw)
                      ELSE LET numer == RSub(RMul(target, cum_amount), cum_krw)
                               x == RDiv(numer, denom)
                           IN  IF RLe(x, Zero)
                               THEN krw_or_none(cum_krw)
                               ELSE RAdd(cum_krw, RMul(RMin(x, sz), p))

\* the loop of compute_max_notional_for_slippage over the bids
RECURSIVE max_notional_sell(_, _, _, _)
max_notional_sell(levels, target, cum_amount, cum_krw) ==
    IF levels = <<>> THEN krw_or_none(cum_krw)
    ELSE LET p == Head(levels).price
             sz == Head(levels).size
             new_cum_amount == RAdd(cum_amount, sz)
             new_cum_krw == RAdd(cum_krw, RMul(p, sz))
             new_avg == IF RLt(Zero, new_cum_amount)
                        THEN RDiv(new_cum_krw, new_cum_amount) ELSE p
         IN  IF RLe(target, new_avg)
             THEN max_notional_sell(Tail(levels), target, new_cum_amount, new_cum_krw)
             ELSE LET denom == RSub(target, p)
                  IN  IF RLe(denom, Zero)
                      THEN max_notional_sell(Tail(levels), target,
                                             new_cum_amount, new_cum_krw)
                      ELSE LET numer == RSub(RMul(target, cum_amount), cum_krw)
                               x == RDiv(numer, denom)
                           IN  IF RLe(x, Zero)
                               THEN krw_or_none(cum_krw)
                               ELSE RAdd(cum_krw, RMul(RMin(x, sz), p))

\* compute_max_notional_for_slippage
compute_max_notional_for_slippage(orderbook, side, max_slippage_pct, best_price) ==
    LET nb == _normalize_orderbook(orderbook)
        levels == IF is_buy(side) THEN nb.asks ELSE nb.bids
    IN  IF nb.raised \/ levels = <<>> THEN None
        ELSE LET best == IF best_price = None THEN levels[1].price ELSE best_price
             IN  IF is_buy(side)
                 THEN max_notional_buy(levels, RMul(best, RAdd(One, max_slippage_pct)),
                                       Zero, Zero)
                 ELSE max_notional_sell(levels, RMul(best, RSub(One, max_slippage_pct)),
                                        Zero, Zero)

\* ------------------------------------------------------------------------
\* TWAPExecutor
\* ------------------------------------------------------------------------
\* config.MAX_SLIPPAGE_PCT, the default of max_slippage_pct, and the
\* default of limit_offset_pct
MAX_SLIPPAGE_PCT == Rat(1, 500)
LIMIT_OFFSET_PCT == Rat(1, 1000)

\* one entry of slices_executed; a skipped slice records its depth cap
\* (allowed) and no price, units or reason for a reduction
SliceRecord(slice, status, requested, allowed, actual, price, units, reason) ==
    [slice |-> slice, status |-> status, requested |-> requested, allowed |-> allowed,
     actual |-> actual, price |-> price, units |-> units, reason |-> reason]

\* the summary before execute_twap has returned
NoSummary ==
    [requested_notional_krw |-> Zero, executed_notional_krw |-> Zero,
     slices_planned |-> 0, slices_executed |-> 0, remaining_notional_krw |-> Zero]

\* the defaults _default_params sets for the keys twap_params leaves out
LIMIT_TIMEOUT_SEC == 8
DefaultParams ==
    [use_orderbook_depth |-> TRUE, market_fallback |-> TRUE,
     limit_timeout_sec |-> LIMIT_TIMEOUT_SEC]

\* the locals of execute_twap at the head of the loop; slices <= 0 runs as 1;
\* market_state is the pre-fetched order book (NoBook: none was passed);
\* sent and waited are the orders the last pass of the loop handed to the
\* exchange and the number of polls of its fill-wait
TwapStart(signal_id, side, total_notional_krw, entry_price, slices, min_slice_krw, dry_run, has_client, market_state) ==
    [pc |-> "loop", signal_id |-> signal_id, market_state |-> market_state,
     side |-> side, total_notional_krw |-> total_notional_krw,
     entry_price |-> entry_price,
     slices |-> IF slices > 0 THEN slices ELSE 1,
     min_slice_krw |-> min_slice_krw, dry_run |-> dry_run, has_client |-> has_client,
     i |-> 0, remaining |-> total_notional_krw, halted |-> FALSE,
     slices_executed |-> <<>>, summary |-> NoSummary,
     use_depth |-> DefaultParams.use_orderbook_depth,
     market_fallback |-> DefaultParams.market_fallback,
     limit_timeout |-> DefaultParams.limit_timeout_sec,
     sent |-> <<>>, waited |-> 0]

\* the run with the keys twap_params gives
with_params(t, p) ==
    [t EXCEPT !.use_depth = p.use_orderbook_depth,
              !.market_fallback = p.market_fallback,
              !.limit_timeout = p.limit_timeout_sec]

\* no TWAP run under way
TwapIdle ==
    [TwapStart(0, "buy", Zero, Zero, 1, Zero, TRUE, FALSE, NoBook) EXCEPT !.pc = "idle"]

\* the loop is left: by a break, after the last slice, or at its head
\* with nothing remaining
LoopEnds(t) == t.halted \/ t.i >= t.slices \/ RLe(t.remaining, Zero)

\* the books a slice may read: the pre-fetched one, else the one fetched
\* through the exchange client (nothing when the fetch fails), else none
slice_orderbooks(t, fetched) ==
    IF t.market_state # NoBook THEN {t.market_state}
    ELSE IF t.has_client THEN fetched
    ELSE {NoBook}

\* best price of a slice: the entry price, or the price of the first level
\* of the side of the fetched book when it has one
slice_best_price(t, orderbook) ==
    LET levels == IF is_buy(t.side) THEN orderbook.asks ELSE orderbook.bids
    IN  IF levels # <<>> /\ levels[1].price # Zero THEN levels[1].price
        ELSE t.entry_price

\* the planned notional of slice i (0-based)
planned_notional(t) ==
    LET per_slice_target == RDiv(t.total_notional_krw, F(t.slices))
    IN  RMin(IF t.i < t.slices - 1 THEN per_slice_target ELSE t.remaining, t.remaining)

\* the actual notional that is not halved when the depth is unknown
actual_notional_unhalved(planned, allowed, remaining) ==
    IF allowed = None
    THEN RMin(planned, remaining)
    ELSE RMin(RMin(planned, allowed), remaining)

\* the actual notional that leaves a known depth cap out
actual_notional_ignores_depth(planned, allowed, remaining) ==
    IF allowed = None
    THEN RMin(RMul(planned, Rat(1, 2)), remaining)
    ELSE RMin(planned, remaining)

\* the actual notional of the slice given the depth cap (None: unknown)
actual_notional(planned, allowed, remaining) ==
    IF allowed = None
    THEN RMin(RMul(planned, Rat(1, 2)), remaining)
    ELSE RMin(RMin(planned, allowed), remaining)

\* the depth cap of a slice: None when the depth check is switched off
allowed_notional(t, orderbook, best_price) ==
    IF t.use_depth
    THEN compute_max_notional_for_slippage(orderbook, t.side, MAX_SLIPPAGE_PCT, best_price)
    ELSE None

\* the price of the limit order of a slice
limit_price(t, best_price) ==
    IF is_buy(t.side)
    THEN RMul(best_price, RAdd(One, LIMIT_OFFSET_PCT))
    ELSE RMul(best_price, RSub(One, LIMIT_OFFSET_PCT))

\* the price of a simulated fill given the slippage estimate: best price
\* moved by the estimate, or the limit price when there is none
price_from_slippage(t, best_price, slippage_frac) ==
    IF slippage_frac = None
    THEN limit_price(t, best_price)
    ELSE IF is_buy(t.side) THEN RMul(best_price, RAdd(One, slippage_frac))
    ELSE RMul(best_price, RSub(One, slippage_frac))

\* the simulated fill of a slice: price from the slippage estimate, or the
\* limit price when there is none
simulated_price(t, orderbook, actual, best_price) ==
    price_from_slippage(t, best_price,
        estimate_slippage_for_notional(orderbook, t.side, actual, best_price))

\* the fill-wait that polls once more at the timeout
RECURSIVE wait_for_fill_once_more(_, _)
wait_for_fill_once_more(waited, limit_timeout) ==
    IF waited <= limit_timeout
    THEN wait_for_fill_once_more(waited + 1, limit_timeout)
    ELSE waited

\* the fill-wait of the live branch: one poll per second until
\* limit_timeout; the order status is not read, so the order never counts
\* as filled
RECURSIVE wait_for_fill(_, _)
wait_for_fill(waited, limit_timeout) ==
    IF waited < limit_timeout THEN wait_for_fill(waited + 1, limit_timeout) ELSE waited

\* an order handed to the exchange, with the notional it commits
BrokerOrder(kind, krw) == [kind |-> kind, krw |-> krw]

\* the live branch of a slice: the limit order for actual / limit_price
\* units, its record, the fill-wait, then the market order for the actual
\* notional (a sell: actual / entry_price units) and its record; whatever
\* raises on the way (fault) ends the branch with status 'failed'
live_execution(t, fault, best_price, actual) ==
    LET limit == limit_price(t, best_price)
        vol == IF RLt(Zero, limit) THEN RDiv(actual, limit) ELSE Zero
        limit_order == BrokerOrder("limit", RMul(limit, vol))
        units == IF RLt(Zero, t.entry_price) THEN RDiv(actual, t.entry_price) ELSE Zero
        market_order == BrokerOrder("market", IF is_buy(t.side) THEN actual
                                              ELSE RMul(units, t.entry_price))
        waited == wait_for_fill(0, t.limit_timeout)
    IN  IF fault = "limit_order"
        THEN [status |-> "failed", sent |-> <<>>, waited |-> 0]
        ELSE IF fault = "insert_execution"
        THEN [status |-> "failed", sent |-> <<limit_order>>, waited |-> 0]
        ELSE IF ~t.market_fallback
        THEN [status |-> "submitted", sent |-> <<limit_order>>, waited |-> waited]
        ELSE IF fault = "market_order"
        THEN [status |-> "failed", sent |-> <<limit_order>>, waited |-> waited]
        ELSE IF fault = "insert_fallback"
        THEN [status |-> "failed", sent |-> <<limit_order, market_order>>, waited |-> waited]
        ELSE [status |-> "submitted", sent |-> <<limit_order, market_order>>, waited |-> waited]

\* the simulated branch hands nothing to the exchange
NothingSent == [status |-> "simulated", sent |-> <<>>, waited |-> 0]

\* the pass whose skipped slice goes on with the next slice
slice_outcome_skip_continues(t, live, planned, allowed, actual, price) ==
    LET slice_no == t.i + 1
        simulated == t.dry_run \/ ~t.has_client
        units == IF simulated
                 THEN (IF RLt(Zero, price) THEN RDiv(actual, price) ELSE Zero)
                 ELSE None
        status == live.status
        reason == IF allowed = None THEN "no_depth_info_reduced_50pct" ELSE ""
        left == RSub(t.remaining, actual)
    IN  IF RLt(actual, t.min_slice_krw)
        THEN [t EXCEPT
                 !.slices_executed = Append(@, SliceRecord(slice_no, "skipped_too_small",
                                                           planned, allowed, Zero, None,
                                                           None, "too_small")),
                 !.i = slice_no,
                 !.sent = <<>>,
                 !.waited = 0]
        ELSE [t EXCEPT
                 !.slices_executed = Append(@, SliceRecord(slice_no, status, planned, None,
                                                           actual, price, units, reason)),
                 !.remaining = left,
                 !.i = slice_no,
                 !.halted = RLe(left, Zero) \/ RLt(left, t.min_slice_krw),
                 !.sent = live.sent,
                 !.waited = live.waited]

\* the end of one pass of the loop: the slice is recorded with its planned
\* notional, depth cap, actual notional and fill price; a slice below
\* min_slice_krw is recorded as skipped and ends the loop
slice_outcome(t, live, planned, allowed, actual, price) ==
    LET slice_no == t.i + 1
        simulated == t.dry_run \/ ~t.has_client
        units == IF simulated
                 THEN (IF RLt(Zero, price) THEN RDiv(actual, price) ELSE Zero)
                 ELSE None
        status == live.status
        reason == IF allowed = None THEN "no_depth_info_reduced_50pct" ELSE ""
        left == RSub(t.remaining, actual)
    IN  IF RLt(actual, t.min_slice_krw)
        THEN [t EXCEPT
                 !.slices_executed = Append(@, SliceRecord(slice_no, "skipped_too_small",
                                                           planned, allowed, Zero, None,
                                                           None, "too_small")),
                 !.halted = TRUE,
                 !.sent = <<>>,
                 !.waited = 0]
        ELSE [t EXCEPT
                 !.slices_executed = Append(@, SliceRecord(slice_no, status, planned, None,
                                                           actual, price, units, reason)),
                 !.remaining = left,
                 !.i = slice_no,
                 !.halted = RLe(left, Zero) \/ RLt(left, t.min_slice_krw),
                 !.sent = live.sent,
                 !.waited = live.waited]

\* the pass from the actual notional on: the fill price in simulation,
\* the orders in live mode
slice_fill(t, orderbook, fault, best_price, planned, allowed, actual) ==
    IF t.dry_run \/ ~t.has_client
    THEN slice_outcome(t, NothingSent, planned, allowed, actual,
                       simulated_price(t, orderbook, actual, best_price))
    ELSE slice_outcome(t, live_execution(t, fault, best_price, actual), planned, allowed,
                       actual, None)

\* the pass from the depth cap on: the actual notional of the slice
slice_capped(t, orderbook, fault, best_price, planned, allowed) ==
    slice_fill(t, orderbook, fault, best_price, planned, allowed,
               actual_notional(planned, allowed, t.remaining))

\* one pass of the loop of execute_twap with the book fetched for the
\* slice and the call of the pass that raises (fault), if any
twap_slice(t, orderbook, fault) ==
    LET best_price == slice_best_price(t, orderbook)
    IN  slice_capped(t, orderbook, fault, best_price, planned_notional(t),
                     allowed_notional(t, orderbook, best_price))

\* the simulated branch marks the parent signal on the first slice, after
\* the slice is stored
marks_parent(t, orderbook, fault) ==
    LET best_price == slice_best_price(t, orderbook)
        allowed == allowed_notional(t, orderbook, best_price)
        actual == actual_notional(planned_notional(t), allowed, t.remaining)
    IN  /\ t.i = 0
        /\ t.dry_run \/ ~t.has_client
        /\ ~RLt(actual, t.min_slice_krw)
        /\ fault # "insert_execution"

\* the slices that count as executed
RECURSIVE count_executed(_)
count_executed(ledger) ==
    IF ledger = <<>> THEN 0
    ELSE (IF Head(ledger).status \in {"skipped_too_small", "failed"} THEN 0 ELSE 1)
         + count_executed(Tail(ledger))

\* the summary execute_twap returns
twap_summary(t) ==
    [requested_notional_krw |-> t.total_notional_krw,
     executed_notional_krw |-> RSub(t.total_notional_krw, t.remaining),
     slices_planned |-> t.slices,
     slices_executed |-> count_executed(t.slices_executed),
     remaining_notional_krw |-> t.remaining]

\* ------------------------------------------------------------------------
\* Executor
\* ------------------------------------------------------------------------
MAX_DAILY_LOSS_PCT == 10

\* SIM_ATR, on the scale of the model's prices
SIM_ATR == Rat(1, 20)

\* a JSON value that int() or float() converts (numeric) or rejects
Num(v) == [numeric |-> TRUE, value |-> v]
NotNum == [numeric |-> FALSE, value |-> 0]

\* the stored payload_json of a signal: text of a JSON object with these
\* keys (kind "object"), text that is not JSON (kind "invalid"), or JSON
\* that is no object, such as null or a list (kind "non_dict")
Payload(kind, action, pct, confidence, stop_rel, execution, slices) ==
    [kind |-> kind, action |-> action, pct |-> pct, confidence |-> confidence,
     stop_rel |-> stop_rel, execution |-> execution, twap_slices |-> slices]

\* json.loads with the fallback to {} of _process_single; the reads of an
\* empty dict give the defaults 'hold', 0 and 0.0
json_loads(payload_json) ==
    IF payload_json.kind = "invalid"
    THEN Payload("object", "hold", Num(0), Num(0), None, "", Num(0))
    ELSE payload_json

\* the stub: no daily loss is computed yet
_get_daily_loss_pct == Zero

is_safe_to_execute(equity_krw, loss_pct) ==
    ~RLe(F(MAX_DAILY_LOSS_PCT), loss_pct)

\* the pct of the copy apply_policy_caps returns
apply_policy_caps(pct) ==
    LET clamped == IF pct < 0 THEN 0 ELSE IF pct > 100 THEN 100 ELSE pct
    IN  IF clamped > MAX_SINGLE_ORDER_PCT THEN MAX_SINGLE_ORDER_PCT ELSE clamped

\* what _process_single has done when it returns or calls execute_twap:
\* the status it wrote ("" when it wrote none), whether it raised, and the
\* TWAP run it started (TwapIdle: none)
Resolved(status) == [raised |-> FALSE, status |-> status, twap |-> TwapIdle]
Raises == [raised |-> TRUE, status |-> "", twap |-> TwapIdle]
Delegated(t) == [raised |-> FALSE, status |-> "", twap |-> t]

\* the position left by the depth cap max_allowed (None: depth unknown,
\* the position is halved), blocked when it falls below the minimum order
cap_position(desired_notional, max_allowed) ==
    LET reduced_notional == RMul(desired_notional, Rat(1, 2))
    IN  IF max_allowed = None
        THEN [blocked |-> RLt(reduced_notional, F(MIN_ORDER_KRW)),
              position_krw |-> reduced_notional]
        ELSE IF RLt(max_allowed, desired_notional)
        THEN [blocked |-> RLt(max_allowed, F(MIN_ORDER_KRW)), position_krw |-> max_allowed]
        ELSE [blocked |-> FALSE, position_krw |-> desired_notional]

\* the slippage cap of _process_single on the computed position
slippage_cap(desired_notional, orderbook, action, entry_price) ==
    cap_position(desired_notional,
                 compute_max_notional_for_slippage(orderbook, action,
                                                   MAX_SLIPPAGE_PCT, entry_price))

\* the last part of _process_single: simulate, or place a market order
normal_execution(dry_run, has_pyupbit, order_ok) ==
    IF dry_run THEN "simulated"
    ELSE IF ~has_pyupbit THEN "failed"
    ELSE IF order_ok THEN "submitted"
    ELSE "failed"

\* _process_single from the slippage cap on: blocked below the minimum
\* order, else TWAP or the normal execution
process_capped(sig, payload, dry_run, has_pyupbit, entry_price, orderbook, order_ok, cap) ==
    IF cap.blocked THEN Resolved("blocked")
    ELSE IF payload.execution = "twap" /\ payload.twap_slices.numeric
    THEN Delegated(TwapStart(sig.id, payload.action, cap.position_krw,
                             entry_price, payload.twap_slices.value,
                             F(MIN_ORDER_KRW), dry_run, has_pyupbit, orderbook))
    ELSE Resolved(normal_execution(dry_run, has_pyupbit, order_ok))

\* _process_single from the sizing on: nothing to do for a position of 0
process_sized(sig, payload, dry_run, has_pyupbit, entry_price, orderbook, order_ok, sizing) ==
    IF RLe(sizing.position_krw, Zero) THEN Resolved("ignored")
    ELSE process_capped(sig, payload, dry_run, has_pyupbit, entry_price, orderbook,
                        order_ok,
                        slippage_cap(sizing.position_krw, orderbook, payload.action,
                                     entry_price))

\* _process_single up to its return or its call of execute_twap; the reads
\* of action, pct and confidence come before the check that the payload is
\* a dict; a TWAP call that raises (twap_params that int() rejects) falls
\* back to the normal execution
_process_single(sig, dry_run, has_pyupbit, equity, entry_price, orderbook, order_ok) ==
    LET payload == json_loads(sig.payload_json)
    IN  IF payload.kind = "non_dict" \/ ~payload.pct.numeric \/ ~payload.confidence.numeric
        THEN Raises
        ELSE IF ~is_safe_to_execute(equity, _get_daily_loss_pct)
        THEN Resolved("blocked")
        ELSE IF payload.action = "hold" \/ apply_policy_caps(payload.pct.value) = 0
        THEN Resolved("ignored")
        ELSE LET stop_price == IF payload.stop_rel # None
                               THEN RSub(entry_price, RMul(SIM_ATR, payload.stop_rel))
                               ELSE RMul(entry_price, Rat(97, 100))
             IN  process_sized(sig, payload, dry_run, has_pyupbit, entry_price,
                               orderbook, order_ok,
                               size_from_risk(equity, entry_price, stop_price, None))

\* db.update_signal_status
update_signal_status(table, signal_id, status) == [table EXCEPT ![signal_id] = status]

\* db.get_pending_signals: the rows with status 'pending', oldest first
get_pending_signals(table, rows) ==
    LET RECURSIVE from(_)
        from(k) == IF k > Len(rows) THEN <<>>
                   ELSE (IF table[k] = "pending"
                         THEN <<[id |-> k, payload_json |-> rows[k]]>> ELSE <<>>)
                        \o from(k + 1)
    IN  from(1)

\* ------------------------------------------------------------------------
\* RegimeClassifier
\* ------------------------------------------------------------------------
\* the defaults of the constructor (the thresholds of the test)
adx_trend_threshold == F(25)
adx_range_threshold == F(20)

\* a feature snapshot; None stands for a missing or non-numeric value
Point(adx, ema9, ema50) == [adx |-> adx, ema9 |-> ema9, ema50 |-> ema50]

_raw_label(point) ==
    IF point.adx = None THEN "unknown"
    ELSE IF RLe(adx_trend_threshold, point.adx)
    THEN (IF point.ema9 # None /\ point.ema50 # None
          THEN (IF RLt(point.ema50, point.ema9) THEN "trend_up"
                ELSE IF RLt(point.ema9, point.ema50) THEN "trend_down"
                ELSE "transition")
          ELSE "transition")
    ELSE IF RLe(point.adx, adx_range_threshold) THEN "range"
    ELSE "transition"

\* the locals of the loop of classify_series; "" stands for None
ClassifyStart == [current_label |-> "", candidate |-> "", candidate_count |-> 0,
                  labels |-> <<>>]

\* the loop that keeps the candidate count when the raw label returns to
\* the active one
RECURSIVE classify_loop_keeps_count(_, _, _)
classify_loop_keeps_count(points, hysteresis_period, st) ==
    IF points = <<>> THEN st.labels
    ELSE LET raw == _raw_label(Head(points))
             counted == IF st.candidate = "" \/ raw # st.candidate
                        THEN [st EXCEPT !.candidate = raw, !.candidate_count = 1]
                        ELSE [st EXCEPT !.candidate_count = @ + 1]
             accepted == IF counted.candidate_count >= hysteresis_period
                         THEN [counted EXCEPT !.current_label = counted.candidate,
                                              !.candidate = "",
                                              !.candidate_count = 0]
                         ELSE counted
             next == IF st.current_label = ""
                     THEN [st EXCEPT !.current_label = raw, !.candidate = "",
                                     !.candidate_count = 0, !.labels = Append(@, raw)]
                     ELSE IF raw = st.current_label
                     THEN [st EXCEPT !.labels = Append(@, st.current_label)]
                     ELSE [accepted EXCEPT !.labels = Append(@, accepted.current_label)]
         IN  classify_loop_keeps_count(Tail(points), hysteresis_period, next)

\* the loop of classify_series over the remaining points
RECURSIVE classify_loop(_, _, _)
classify_loop(points, hysteresis_period, st) ==
    IF points = <<>> THEN st.labels
    ELSE LET raw == _raw_label(Head(points))
             counted == IF st.candidate = "" \/ raw # st.candidate
                        THEN [st EXCEPT !.candidate = raw, !.candidate_count = 1]
                        ELSE [st EXCEPT !.candidate_count = @ + 1]
             accepted == IF counted.candidate_count >= hysteresis_period
                         THEN [counted EXCEPT !.current_label = counted.candidate,
                                              !.candidate = "",
                                              !.candidate_count = 0]
                         ELSE counted
             next == IF st.current_label = ""
                     THEN [st EXCEPT !.current_label = raw, !.candidate = "",
                                     !.candidate_count = 0, !.labels = Append(@, raw)]
                     ELSE IF raw = st.current_label
                     THEN [st EXCEPT !.candidate = "", !.candidate_count = 0,
                                     !.labels = Append(@, st.current_label)]
                     ELSE [accepted EXCEPT !.labels = Append(@, accepted.current_label)]
         IN  classify_loop(Tail(points), hysteresis_period, next)

\* classify_series: [] for no points
classify_series(points, hysteresis_period) ==
    IF points = <<>> THEN <<>>
    ELSE classify_loop(points, hysteresis_period, ClassifyStart)

\* ------------------------------------------------------------------------
\* DBLogger
\* ------------------------------------------------------------------------
\* a statement: the UPDATE of update_signal_status
Statement(signal_id, status) == [signal_id |-> signal_id, status |-> status]

\* the state of a DBLogger.execute call: the connection (conn: whether
\* self.conn is set), the table, the outcomes of the statement attempts so
\* far, the reconnects and execute calls made, and what the outside world
\* will answer to the next connection attempts (connect_ok) and statement
\* attempts (stmt_ok)
ExecuteState(conn, table, connect_ok, stmt_ok) ==
    [conn |-> conn, table |-> table, results |-> <<>>, reconnects |-> 0, calls |-> 0,
     raised |-> FALSE, connect_ok |-> connect_ok, stmt_ok |-> stmt_ok]

\* _connect: sets self.conn, or None when the connection fails; never raises
_connect(st) == [st EXCEPT !.conn = Head(st.connect_ok), !.connect_ok = Tail(@)]

\* execute without the reconnect before the retry
RECURSIVE execute_retry_without_reconnect(_, _, _)
execute_retry_without_reconnect(st, sql, retries) ==
    LET entered == [st EXCEPT !.calls = @ + 1]
        connected == IF ~entered.conn THEN _connect(entered) ELSE entered
        ok == Head(connected.stmt_ok)
        tried == [connected EXCEPT !.results = Append(@, ok), !.stmt_ok = Tail(@)]
    IN  IF ~connected.conn THEN [connected EXCEPT !.raised = TRUE]
        ELSE IF ok
        THEN [tried EXCEPT !.table = update_signal_status(@, sql.signal_id, sql.status)]
        ELSE IF retries > 0
        THEN execute_retry_without_reconnect(tried, sql, retries - 1)
        ELSE [tried EXCEPT !.raised = TRUE]

\* execute(sql, params, retries): connects when there is no connection
\* (self.conn.cursor() raises when there still is none), attempts the
\* statement, and after a failed attempt with retries > 0 reconnects and
\* calls itself with retries - 1; every other failure is raised
RECURSIVE execute(_, _, _)
execute(st, sql, retries) ==
    LET entered == [st EXCEPT !.calls = @ + 1]
        connected == IF ~entered.conn THEN _connect(entered) ELSE entered
        ok == Head(connected.stmt_ok)
        tried == [connected EXCEPT !.results = Append(@, ok), !.stmt_ok = Tail(@)]
    IN  IF ~connected.conn THEN [connected EXCEPT !.raised = TRUE]
        ELSE IF ok
        THEN [tried EXCEPT !.table = update_signal_status(@, sql.signal_id, sql.status)]
        ELSE IF retries > 0
        THEN execute([_connect(tried) EXCEPT !.reconnects = @ + 1], sql, retries - 1)
        ELSE [tried EXCEPT !.raised = TRUE]

\* ------------------------------------------------------------------------
\* Inputs
\* ------------------------------------------------------------------------
\* constructor arguments: the dataclass defaults (as in the tests), a tight
\* configuration whose reduction limit is reached after one step, and one
\* whose floor is above the initial value
Configs ==
    { [initial_risk_pct |-> One, min_risk_pct |-> Rat(1, 20),
       daily_loss_limit_pct |-> One, max_drawdown_limit_pct |-> F(10),
       consecutive_losses_threshold |-> 3, consecutive_loss_multiplier |-> Rat(1, 2),
       max_reduction_steps |-> 5, recovery_enabled |-> TRUE,
       recovery_consec_wins |-> 3, recovery_step_pct_of_initial |-> Rat(1, 10)],
      [initial_risk_pct |-> One, min_risk_pct |-> Rat(1, 20),
       daily_loss_limit_pct |-> F(2), max_drawdown_limit_pct |-> F(10),
       consecutive_losses_threshold |-> 2, consecutive_loss_multiplier |-> Rat(1, 2),
       max_reduction_steps |-> 1, recovery_enabled |-> TRUE,
       recovery_consec_wins |-> 2, recovery_step_pct_of_initial |-> Rat(3, 10)],
      [initial_risk_pct |-> One, min_risk_pct |-> F(2),
       daily_loss_limit_pct |-> F(2), max_drawdown_limit_pct |-> F(10),
       consecutive_losses_threshold |-> 1, consecutive_loss_multiplier |-> Rat(1, 2),
       max_reduction_steps |-> 2, recovery_enabled |-> FALSE,
       recovery_consec_wins |-> 2, recovery_step_pct_of_initial |-> Rat(1, 10)] }

PnLs == {F(-1), F(0), F(1)}
NavsAfter == {F(90), F(100)}
DayNavs == {F(0), F(100)}

\* requested risk-pct values of directly evaluated proposals
Requests == {None, F(0), F(-1), Rat(1, 2), F(2), F(3)}

Sig(source, symbol, side, score, confidence, risk, stop, entry) ==
    [source |-> source, symbol |-> symbol, side |-> side, score |-> score,
     confidence |-> confidence, suggested_risk_pct |-> risk,
     suggested_stop_pct |-> stop, entry_price |-> entry]

\* the signals a cycle can ingest; the first is the signal of the tests,
\* the last has a stop at the floor of the stop fraction (0.0001 %)
SignalUniverse ==
    { Sig("agent", "KRW-BTC", "long", One, Rat(3, 5), F(2), One, F(50)),
      Sig("agent", "KRW-BTC", "long", Rat(1, 2), Rat(3, 5), Rat(1, 2), F(2), None),
      Sig("agent", "KRW-BTC", "short", One, Rat(3, 5), F(3), One, F(50)),
      Sig("rule", "KRW-BTC", "long", Rat(1, 2), None, One, None, None),
      Sig("rule", "KRW-ETH", "long", Rat(1, 5), Rat(1, 2), None, None, None),
      Sig("agent", "KRW-ETH", "long", Rat(4, 5), Rat(4, 5), Zero, Zero, None),
      Sig("other", "KRW-ETH", "long", One, One, One, One, None),
      Sig("rule", "KRW-ETH", "long", Rat(1, 2), Rat(3, 5), F(2), Rat(1, 10000), None) }

SignalLists == UNION { [1..n -> SignalUniverse] : n \in 0..MaxSignals }

Equities == {F(100)}
PriceHints == {None, F(50)}

\* order-book levels: the levels of the three-level scenario (100 x 1,
\* 101 x 2, 105 x 10), a level of size zero and a level below 100
LevelUniverse ==
    { [price |-> F(100), size |-> F(1)],
      [price |-> F(101), size |-> F(2)],
      [price |-> F(105), size |-> F(10)],
      [price |-> F(100), size |-> Zero],
      [price |-> F(99), size |-> F(1)] }

LevelLists == UNION { [1..n -> LevelUniverse] : n \in 0..MaxLevels }

Sides == {"buy", "sell"}

\* the book a query of the side reads
BookFor(side, levels) ==
    IF is_buy(side) THEN DictBook(levels, <<>>)
    ELSE DictBook(<<>>, levels)

\* slippage bounds as fractions: none, 0.5 % and 5 %
SlippageBounds == {Zero, Rat(1, 200), Rat(1, 20)}

\* best-price hints: absent, at, below and above the quoted prices
BestHints == {None, F(100), F(90), F(110)}

\* arguments of estimate_slippage_for_notional: the hints and a best price
\* of 0; no notional, one below, at and between the level boundaries of the
\* three-level scenario, and one above most books; the books of the depth
\* queries and one whose normalization raises
EstimateHints == BestHints \cup {Zero}
Notionals == {Zero, F(50), F(100), F(201), F(302), F(2000)}
EstimateBooks(side) ==
    { BookFor(side, levels) : levels \in LevelLists }
        \cup {RawBook("dict", <<>>, FALSE, <<>>, <<>>, TRUE)}

\* arguments of size_from_risk, money in units of 1,000 KRW: no equity,
\* an equity whose cap is below the minimum order, and two larger ones
SizerEquities == {Zero, F(20), F(100), F(200)}
EntryPrices == {F(50), F(100)}
StopPrices == {F(40), F(90), F(97), F(100), F(110)}
RiskPcts == {None, F(-1), Zero, Rat(1, 2), F(1), F(3)}

\* TWAP runs, money in units of 1,000 KRW: the scenario total of
\* 1,000,000 KRW, a total whose halved slices fall below the minimum, and
\* a total of nothing
TwapTotals == {F(1000), F(30), Zero}
TwapSlices == 1..MaxSlices

\* the book fetched for a slice: none, or one level on the side
TwapBooks(side) == {NoBook, BookFor(side, << [price |-> F(100), size |-> F(1)] >>)}

\* twap_params: the defaults, the depth check switched off, no market
\* fallback after a short wait, and no wait at all
TwapParams ==
    { DefaultParams,
      [DefaultParams EXCEPT !.use_orderbook_depth = FALSE],
      [DefaultParams EXCEPT !.market_fallback = FALSE, !.limit_timeout_sec = 2],
      [DefaultParams EXCEPT !.limit_timeout_sec = 0] }

\* the call of a pass of the loop that raises: none, the limit order (or
\* the construction of the client), the insert of the slice, the market
\* order, the insert after it
Faults == {"none", "limit_order", "insert_execution", "market_order", "insert_fallback"}

\* DRY_RUN and whether an exchange client (pyupbit) is there
ExecutionModes ==
    { [dry_run |-> TRUE, has_client |-> TRUE],
      [dry_run |-> FALSE, has_client |-> TRUE],
      [dry_run |-> FALSE, has_client |-> FALSE] }

\* stored payloads: plain and TWAP orders, a pct above the cap, hold and
\* pct 0, a stop given as an ATR multiple, twap_params and a pct that are
\* no numbers, text that is not JSON, and JSON null
Payloads ==
    { Payload("object", "buy", Num(20), Num(1), None, "", Num(0)),
      Payload("object", "sell", Num(50), Num(1), F(1), "", Num(0)),
      Payload("object", "hold", Num(0), Num(0), None, "", Num(0)),
      Payload("object", "buy", Num(0), Num(1), None, "twap", Num(2)),
      Payload("object", "buy", Num(20), Num(1), None, "twap", Num(2)),
      Payload("object", "sell", Num(20), Num(1), None, "twap", NotNum),
      Payload("object", "buy", NotNum, Num(1), None, "", Num(0)),
      Payload("invalid", "", Num(0), Num(0), None, "", Num(0)),
      Payload("non_dict", "", Num(0), Num(0), None, "", Num(0)) }

\* the llm_signals table: up to MaxPending rows
SignalTables == UNION { [1..n -> Payloads] : n \in 1..MaxPending }

\* the equity estimate (SIM_EQUITY_KRW by default, or the balances)
ExecEquities == {F(1000), F(40)}

\* the current price: 0.0 when the lookup fails or pyupbit is missing
ExecPrices(has_pyupbit) == IF has_pyupbit THEN {Zero, F(100)} ELSE {Zero}

\* the book fetched for the slippage cap: none, a deep level, a thin level
ExecBooks(has_pyupbit, side) ==
    IF has_pyupbit
    THEN TwapBooks(side) \cup {BookFor(side, << [price |-> F(100), size |-> Rat(1, 100)] >>)}
    ELSE {NoBook}

\* members of 'asks' and 'bids': two well-formed ones, one without a price
\* and one whose size is no number
RawLevelUniverse ==
    { [price |-> F(100), size |-> F(1)],
      [price |-> F(101), size |-> F(2)],
      [price |-> None, size |-> F(1)],
      [price |-> F(99), size |-> NotANumber] }

\* members of 'orderbook_units': a full one, a better-priced one, one with
\* a bad ask and a good bid, one with only a bid whose size is missing
Unit(ask_price, ask_size, bid_price, bid_size) ==
    [ask_price |-> ask_price, ask_size |-> ask_size,
     bid_price |-> bid_price, bid_size |-> bid_size]

UnitUniverse ==
    { Unit(F(101), F(1), F(99), F(1)),
      Unit(F(100), F(2), F(100), F(2)),
      Unit(NotANumber, F(1), F(98), F(1)),
      Unit(None, None, F(97), None) }

RawLists(universe) == UNION { [1..n -> universe] : n \in 0..MaxRaw }

\* the arguments of _normalize_orderbook: a falsy value, a value of
\* another type, and dicts (alone or first in a list) with units, with
\* asks and bids, with both, and with values that cannot be iterated
RawBooks(shapes) ==
    {RawBook("falsy", <<>>, TRUE, <<>>, <<>>, TRUE),
     RawBook("other", <<>>, TRUE, <<>>, <<>>, TRUE)}
    \cup { RawBook(shape, units, units_ok, asks, bids, lists_ok) :
              shape \in shapes,
              units \in RawLists(UnitUniverse), units_ok \in {TRUE},
              asks \in RawLists(RawLevelUniverse), bids \in {<<>>},
              lists_ok \in BOOLEAN }
    \cup { RawBook(shape, <<>>, units_ok, asks, bids, TRUE) :
              shape \in shapes, units_ok \in BOOLEAN,
              asks \in RawLists(RawLevelUniverse),
              bids \in RawLists(RawLevelUniverse) }

\* snapshots of every raw label: the four of the test, and one without ADX
PointUniverse ==
    { Point(F(30), F(101), F(100)),
      Point(F(22), F(101), F(100)),
      Point(F(15), F(100), F(100)),
      Point(F(30), F(90), F(100)),
      Point(None, None, None) }

PointSeries(max_points) == UNION { [1..n -> PointUniverse] : n \in 0..max_points }

\* hysteresis_period: the constructor rejects values below 1
HysteresisPeriods == 1..MaxHysteresis

\* the answers of the outside world during one execute call: to at most
\* three connection attempts and two statement attempts
ConnectAnswers == [1..3 -> BOOLEAN]
StatementAnswers == [1..2 -> BOOLEAN]

\* the statuses a caller writes, and tables of stored signals
WrittenStatuses == {"blocked", "submitted", "failed"}
StatusTables == UNION { [1..n -> {"pending", "simulated"}] : n \in 1..MaxPending }

\* ------------------------------------------------------------------------
\* State
\* ------------------------------------------------------------------------
VARIABLES
    risk_engine,    \* the RiskEngine object (also PortfolioManager.risk_engine)
    signals,        \* PortfolioManager.signals
    equity,         \* the equity the caller passes to the cycle
    proposals,      \* result of propose_positions
    decisions,      \* result of apply_risk_engine
    orders,         \* result of finalize_orders
    trace,          \* the trace file written by the cycle: <<>> or <<payload>>
    write_ok,       \* whether the file system accepted the cycle's trace write
    depth,          \* a depth query: its arguments, results and position
    sizer,          \* a size_from_risk call: its arguments, result and position
    norm,           \* a _normalize_orderbook call: its argument, result and position
    regime,         \* a classify_series call: its arguments, result and position
    twap,           \* the locals and the summary of an execute_twap run
    db,             \* llm_signals: the status of every signal, by id
    executor,       \* a process_pending call: its list, its position, its settings
    dbcall,         \* a DBLogger.execute call: its statement, its position, its result
    pc              \* the caller's position in the cycle

engine_vars == <<risk_engine>>
pm_vars == <<signals, equity, proposals, decisions, orders, trace, write_ok, pc>>
policy_vars == <<depth, sizer, norm, regime>>
exec_vars == <<twap, db, executor, dbcall>>
vars == <<risk_engine, signals, equity, proposals, decisions, orders, trace, write_ok, pc,
          depth, sizer, norm, regime, twap, db, executor, dbcall>>

InitPM ==
    /\ signals = <<>>
    /\ equity = None
    /\ proposals = <<>>
    /\ decisions = <<>>
    /\ orders = <<>>
    /\ trace = <<>>
    /\ write_ok = TRUE
    /\ pc = "idle"

\* no depth query under way
DepthIdle ==
    [orderbook |-> NoBook, side |-> "buy", max_slippage_pct |-> Zero,
     best_price |-> None, allowed |-> None, notional_krw |-> None,
     slippage |-> None, pc |-> "idle"]

\* no sizing call under way
NoSizing == [position_krw |-> Zero, amount |-> Zero, actual_risk_pct |-> Zero]

SizerIdle ==
    [equity_krw |-> Zero, entry_price |-> Zero, stop_price |-> Zero,
     risk_pct |-> None, result |-> NoSizing, pc |-> "idle"]

\* no _normalize_orderbook call under way
NormIdle == [ob |-> NoBook, result |-> Normalized(<<>>, <<>>), pc |-> "idle"]

\* no classify_series call under way
RegimeIdle == [points |-> <<>>, hysteresis_period |-> 2, labels |-> <<>>, pc |-> "idle"]

InitPolicyIdle ==
    /\ depth = DepthIdle
    /\ sizer = SizerIdle
    /\ norm = NormIdle
    /\ regime = RegimeIdle

\* no process_pending call under way
ExecutorIdle ==
    [pc |-> "idle", rows |-> <<>>, pending |-> <<>>, processed |-> {}, via_twap |-> {},
     dry_run |-> TRUE, has_pyupbit |-> FALSE]

\* no execute call under way
DbCallIdle ==
    [pc |-> "idle", sql |-> Statement(0, ""), conn |-> FALSE,
     result |-> ExecuteState(FALSE, <<>>, <<>>, <<>>)]

InitExecIdle ==
    /\ twap = TwapIdle
    /\ db = <<>>
    /\ executor = ExecutorIdle
    /\ dbcall = DbCallIdle

Init ==
    /\ \E cfg \in Configs : risk_engine = RiskEngine(cfg)
    /\ InitPM
    /\ InitPolicyIdle
    /\ InitExecIdle

EventsInBounds(e) == Len(e.events) <= MaxEvents

InBounds(e) ==
    /\ EventsInBounds(e)
    /\ RLe(e.daily_realized_pnl, F(MaxDailyPnL))
    /\ RLe(F(-MaxDailyPnL), e.daily_realized_pnl)

\* ---- calls on the risk engine ----
CallOnNewDay ==
    /\ \E nav \in DayNavs :
           risk_engine' = on_new_day(risk_engine, nav)
    /\ UNCHANGED <<pm_vars, policy_vars, exec_vars>>

CallRecordTradeResult ==
    /\ \E pnl \in PnLs, nav_after \in NavsAfter :
           LET e == record_trade_result(risk_engine, pnl, nav_after)
           IN  /\ InBounds(e)
               /\ risk_engine' = e
    /\ UNCHANGED <<pm_vars, policy_vars, exec_vars>>

CallEvaluateProposal ==
    /\ \E req \in Requests :
           LET r == evaluate_proposal(risk_engine, [suggested_risk_pct |-> req])
           IN  /\ EventsInBounds(r.engine)
               /\ risk_engine' = r.engine
    /\ UNCHANGED <<pm_vars, policy_vars, exec_vars>>

\* ---- one cycle of the portfolio manager ----
CallIngestSignals ==
    /\ pc = "idle"
    /\ \E sigs \in SignalLists : signals' = sigs
    /\ equity' = None
    /\ proposals' = <<>>
    /\ decisions' = <<>>
    /\ orders' = <<>>
    /\ trace' = <<>>
    /\ write_ok' = TRUE
    /\ pc' = "ingested"
    /\ UNCHANGED <<engine_vars, policy_vars, exec_vars>>

CallProposePositions ==
    /\ pc = "ingested"
    /\ \E eq \in Equities, price_hint \in PriceHints :
           /\ equity' = eq
           /\ proposals' = propose_positions(signals, eq, price_hint)
    /\ pc' = "proposed"
    /\ UNCHANGED <<risk_engine, signals, decisions, orders, trace, write_ok, policy_vars, exec_vars>>

CallApplyRiskEngine ==
    /\ pc = "proposed"
    /\ LET r == apply_risk_engine(risk_engine, proposals)
       IN  /\ EventsInBounds(r.engine)
           /\ decisions' = r.decisions
           /\ risk_engine' = r.engine
    /\ pc' = "decided"
    /\ UNCHANGED <<signals, equity, proposals, orders, trace, write_ok, policy_vars, exec_vars>>

\* finalize_orders ends with audit_trace, whose file write is best-effort;
\* an exception that reached the caller would end the cycle at "raised"
CallFinalizeOrders ==
    /\ pc = "decided"
    /\ \E ok \in BOOLEAN :
           LET r == finalize_orders(signals, decisions, equity, ok)
           IN  /\ write_ok' = ok
               /\ orders' = r.returned
               /\ trace' = r.file
               /\ pc' = IF r.raised THEN "raised" ELSE "finalized"
    /\ UNCHANGED <<risk_engine, signals, equity, proposals, decisions, policy_vars, exec_vars>>

\* ---- a depth query: the cap, then the estimate for the cap ----
CallComputeMaxNotional ==
    /\ depth.pc = "start"
    /\ depth' = [depth EXCEPT
                     !.allowed = compute_max_notional_for_slippage(
                                     depth.orderbook, depth.side,
                                     depth.max_slippage_pct, depth.best_price),
                     !.pc = "computed"]
    /\ UNCHANGED <<engine_vars, pm_vars, sizer, norm, regime, exec_vars>>

CallEstimateSlippage ==
    /\ depth.pc = "computed"
    /\ depth.allowed # None
    /\ depth' = [depth EXCEPT
                     !.notional_krw = depth.allowed,
                     !.slippage = estimate_slippage_for_notional(
                                      depth.orderbook, depth.side,
                                      depth.allowed, depth.best_price),
                     !.pc = "estimated"]
    /\ UNCHANGED <<engine_vars, pm_vars, sizer, norm, regime, exec_vars>>

\* ---- a call of estimate_slippage_for_notional for a requested notional ----
CallEstimateForNotional ==
    /\ depth.pc = "ask"
    /\ depth' = [depth EXCEPT
                     !.slippage = estimate_slippage_for_notional(
                                      depth.orderbook, depth.side,
                                      depth.notional_krw, depth.best_price),
                     !.pc = "answered"]
    /\ UNCHANGED <<engine_vars, pm_vars, sizer, norm, regime, exec_vars>>

\* ---- a call of size_from_risk ----
CallSizeFromRisk ==
    /\ sizer.pc = "start"
    /\ sizer' = [sizer EXCEPT
                     !.result = size_from_risk(sizer.equity_krw, sizer.entry_price,
                                               sizer.stop_price, sizer.risk_pct),
                     !.pc = "done"]
    /\ UNCHANGED <<engine_vars, pm_vars, depth, norm, regime, exec_vars>>

\* ---- a call of _normalize_orderbook ----
CallNormalizeOrderbook ==
    /\ norm.pc = "start"
    /\ norm' = [norm EXCEPT !.result = _normalize_orderbook(norm.ob), !.pc = "done"]
    /\ UNCHANGED <<engine_vars, pm_vars, depth, sizer, regime, exec_vars>>

\* ---- a call of classify_series ----
CallClassifySeries ==
    /\ regime.pc = "start"
    /\ regime' = [regime EXCEPT
                      !.labels = classify_series(regime.points, regime.hysteresis_period),
                      !.pc = "done"]
    /\ UNCHANGED <<engine_vars, pm_vars, depth, sizer, norm, exec_vars>>

\* ---- an execute_twap run: one action per slice, then the summary ----
TwapSlice ==
    /\ twap.pc = "loop"
    /\ ~LoopEnds(twap)
    /\ \E orderbook \in slice_orderbooks(twap, TwapBooks(twap.side)), fault \in Faults :
           /\ twap' = twap_slice(twap, orderbook, fault)
           /\ db' = IF marks_parent(twap, orderbook, fault)
                    THEN [db EXCEPT ![twap.signal_id] = "simulated"]
                    ELSE db
    /\ UNCHANGED <<engine_vars, pm_vars, policy_vars, executor, dbcall>>

TwapFinish ==
    /\ twap.pc = "loop"
    /\ LoopEnds(twap)
    /\ twap' = [twap EXCEPT !.summary = twap_summary(twap), !.pc = "done"]
    /\ UNCHANGED <<engine_vars, pm_vars, policy_vars, db, executor, dbcall>>

\* ---- a process_pending call: the query, then one signal after another ----
CallProcessPending ==
    /\ executor.pc = "start"
    /\ LET pending == get_pending_signals(db, executor.rows)
       IN  executor' = [executor EXCEPT
                            !.pending = pending,
                            !.pc = IF pending = <<>> THEN "done" ELSE "loop"]
    /\ UNCHANGED <<engine_vars, pm_vars, policy_vars, twap, db, dbcall>>

\* the signal at the head of the list is done with
next_signal(ex, via_twap) ==
    LET sig == Head(ex.pending)
    IN  [ex EXCEPT
            !.pending = Tail(@),
            !.processed = @ \cup {sig.id},
            !.via_twap = IF via_twap THEN @ \cup {sig.id} ELSE @,
            !.pc = IF Tail(ex.pending) = <<>> THEN "done" ELSE "loop"]

\* what follows _process_single with outcome r: the TWAP run begins, or
\* the status is written and the loop goes on
AfterProcessSingle(sig, r) ==
    IF r.twap.pc = "loop"
    THEN /\ twap' = r.twap
         /\ executor' = [executor EXCEPT !.pc = "twap"]
         /\ db' = db
    ELSE /\ twap' = twap
         /\ executor' = next_signal(executor, FALSE)
         /\ db' = IF r.raised THEN db
                  ELSE update_signal_status(db, sig.id, r.status)

\* _process_single for the head of the list, up to its return (an exception
\* is caught and logged by process_pending) or to its call of execute_twap
ProcessSingle ==
    /\ executor.pc = "loop"
    /\ LET sig == Head(executor.pending)
           side == json_loads(sig.payload_json).action
       IN  \E equity_krw \in ExecEquities, entry_price \in ExecPrices(executor.has_pyupbit),
              orderbook \in ExecBooks(executor.has_pyupbit, side), order_ok \in BOOLEAN :
               AfterProcessSingle(sig, _process_single(sig, executor.dry_run,
                                                       executor.has_pyupbit, equity_krw,
                                                       entry_price, orderbook, order_ok))
    /\ UNCHANGED <<engine_vars, pm_vars, policy_vars, dbcall>>

\* execute_twap has returned: the summary is stored and the parent signal
\* is marked
AfterTwap ==
    /\ executor.pc = "twap"
    /\ twap.pc = "done"
    /\ db' = update_signal_status(db, Head(executor.pending).id,
                                  IF executor.dry_run THEN "simulated" ELSE "submitted")
    /\ executor' = next_signal(executor, TRUE)
    /\ twap' = TwapIdle
    /\ UNCHANGED <<engine_vars, pm_vars, policy_vars, dbcall>>

\* ---- a DBLogger.execute call with the default retries = 1 ----
CallExecute ==
    /\ dbcall.pc = "start"
    /\ \E connect_ok \in ConnectAnswers, stmt_ok \in StatementAnswers :
           LET r == execute(ExecuteState(dbcall.conn, db, connect_ok, stmt_ok),
                            dbcall.sql, 1)
           IN  /\ dbcall' = [dbcall EXCEPT !.result = r, !.pc = "done"]
               /\ db' = r.table
    /\ UNCHANGED <<engine_vars, pm_vars, policy_vars, twap, executor>>

\* ------------------------------------------------------------------------
\* Specifications
\* ------------------------------------------------------------------------
\* the risk engine under any sequence of calls
Next ==
    \/ CallOnNewDay
    \/ CallRecordTradeResult
    \/ CallEvaluateProposal

Spec == Init /\ [][Next]_vars

\* an engine with a trading history behind it
Day(nav) == [op |-> "on_new_day", pnl |-> Zero, nav |-> nav]
Trade(pnl, nav_after) == [op |-> "record_trade_result", pnl |-> pnl, nav |-> nav_after]

RECURSIVE Replay(_, _)
Replay(e, ops) ==
    IF ops = <<>> THEN e
    ELSE Replay(IF Head(ops).op = "on_new_day"
                THEN on_new_day(e, Head(ops).nav)
                ELSE record_trade_result(e, Head(ops).pnl, Head(ops).nav),
                Tail(ops))

Histories ==
    { <<>>,
      <<Day(F(100))>>,
      <<Day(F(100)), Trade(F(-2), F(98))>>,
      <<Trade(F(-1), F(100)), Trade(F(-1), F(100)), Trade(F(-1), F(100))>> }

\* portfolio-manager cycles on an engine with a history
InitCycle ==
    /\ \E cfg \in Configs, ops \in Histories :
           risk_engine = Replay(RiskEngine(cfg), ops)
    /\ InitPM
    /\ InitPolicyIdle
    /\ InitExecIdle

NextCycle ==
    \/ CallIngestSignals
    \/ CallProposePositions
    \/ CallApplyRiskEngine
    \/ CallFinalizeOrders

SpecPM == InitCycle /\ [][NextCycle]_vars

\* depth queries on every book, side, bound and hint of the inputs
InitDepth ==
    /\ risk_engine = None
    /\ InitPM
    /\ \E levels \in LevelLists, side \in Sides,
          bound \in SlippageBounds, hint \in BestHints :
           depth = [orderbook |-> BookFor(side, levels), side |-> side,
                    max_slippage_pct |-> bound, best_price |-> hint,
                    allowed |-> None, notional_krw |-> None,
                    slippage |-> None, pc |-> "start"]
    /\ sizer = SizerIdle
    /\ norm = NormIdle
    /\ regime = RegimeIdle
    /\ InitExecIdle

NextDepth ==
    \/ CallComputeMaxNotional
    \/ CallEstimateSlippage

SpecDepth == InitDepth /\ [][NextDepth]_vars

\* size_from_risk on every combination of the arguments
InitSizer ==
    /\ risk_engine = None
    /\ InitPM
    /\ depth = DepthIdle
    /\ norm = NormIdle
    /\ regime = RegimeIdle
    /\ InitExecIdle
    /\ \E eq \in SizerEquities, entry \in EntryPrices,
          stop \in StopPrices, pct \in RiskPcts :
           sizer = [equity_krw |-> eq, entry_price |-> entry, stop_price |-> stop,
                    risk_pct |-> pct, result |-> NoSizing, pc |-> "start"]

NextSizer == CallSizeFromRisk

SpecSizer == InitSizer /\ [][NextSizer]_vars

\* _normalize_orderbook on every argument of the inputs
InitNormalize ==
    /\ risk_engine = None
    /\ InitPM
    /\ depth = DepthIdle
    /\ sizer = SizerIdle
    /\ regime = RegimeIdle
    /\ InitExecIdle
    /\ \E ob \in RawBooks({"dict", "list"}) : norm = [NormIdle EXCEPT !.ob = ob, !.pc = "start"]

NextNormalize == CallNormalizeOrderbook

SpecNormalize == InitNormalize /\ [][NextNormalize]_vars

\* classify_series on every series and hysteresis period of the inputs
InitRegime ==
    /\ risk_engine = None
    /\ InitPM
    /\ depth = DepthIdle
    /\ sizer = SizerIdle
    /\ norm = NormIdle
    /\ InitExecIdle
    /\ \E points \in PointSeries(MaxPoints), period \in HysteresisPeriods :
           regime = [RegimeIdle EXCEPT !.points = points, !.hysteresis_period = period,
                                      !.pc = "start"]

NextRegime == CallClassifySeries

SpecRegime == InitRegime /\ [][NextRegime]_vars

\* execute_twap runs for one stored signal
InitTwap ==
    /\ risk_engine = None
    /\ InitPM
    /\ InitPolicyIdle
    /\ db = <<"pending">>
    /\ executor = ExecutorIdle
    /\ dbcall = DbCallIdle
    /\ \E side \in Sides, total \in TwapTotals, n \in TwapSlices,
          mode \in ExecutionModes, p \in TwapParams :
           \E market_state \in TwapBooks(side) :
               twap = with_params(TwapStart(1, side, total, F(100), n, F(MIN_ORDER_KRW),
                                            mode.dry_run, mode.has_client, market_state), p)

NextTwap ==
    \/ TwapSlice
    \/ TwapFinish

SpecTwap == InitTwap /\ [][NextTwap]_vars

\* a pass of the loop can be taken: TwapSlice is enabled exactly then, the
\* slice always has a book or none to read and always appends a record
SliceEnabled == twap.pc = "loop" /\ ~LoopEnds(twap)

\* the loop is sequential code: a pass that can be taken is taken (its
\* sleeps are bounded by the slice interval and the limit timeout) and
\* the function returns once the loop is left; the weak fairness of
\* TwapSlice is written with SliceEnabled for its enabling condition
SpecTwapFair ==
    /\ SpecTwap
    /\ WF_vars(TwapFinish)
    /\ ([]<>~SliceEnabled \/ []<><<TwapSlice>>_vars)

\* process_pending on a table of pending signals
InitExecutor ==
    /\ risk_engine = None
    /\ InitPM
    /\ InitPolicyIdle
    /\ twap = TwapIdle
    /\ dbcall = DbCallIdle
    /\ \E rows \in SignalTables, dry_run \in BOOLEAN, has_pyupbit \in BOOLEAN :
           /\ db = [k \in 1..Len(rows) |-> "pending"]
           /\ executor = [ExecutorIdle EXCEPT !.pc = "start", !.rows = rows,
                                              !.dry_run = dry_run,
                                              !.has_pyupbit = has_pyupbit]

NextExecutor ==
    \/ CallProcessPending
    \/ ProcessSingle
    \/ TwapSlice
    \/ TwapFinish
    \/ AfterTwap

SpecExecutor == InitExecutor /\ [][NextExecutor]_vars

\* an execute call for a status update on a stored table, with or without
\* a connection at hand
InitDb ==
    /\ risk_engine = None
    /\ InitPM
    /\ InitPolicyIdle
    /\ twap = TwapIdle
    /\ executor = ExecutorIdle
    /\ \E table \in StatusTables, conn \in BOOLEAN :
           \E signal_id \in 1..Len(table), status \in WrittenStatuses :
               /\ db = table
               /\ dbcall = [DbCallIdle EXCEPT !.pc = "start", !.conn = conn,
                                              !.sql = Statement(signal_id, status)]

NextDb == CallExecute

SpecDb == InitDb /\ [][NextDb]_vars

\* estimate_slippage_for_notional on every book, side, notional and hint
InitEstimate ==
    /\ risk_engine = None
    /\ InitPM
    /\ \E side \in Sides :
          \E book \in EstimateBooks(side), notional \in Notionals,
             hint \in EstimateHints :
              depth = [orderbook |-> book, side |-> side,
                       max_slippage_pct |-> Zero, best_price |-> hint,
                       allowed |-> None, notional_krw |-> notional,
                       slippage |-> None, pc |-> "ask"]
    /\ sizer = SizerIdle
    /\ norm = NormIdle
    /\ regime = RegimeIdle
    /\ InitExecIdle

NextEstimate == CallEstimateForNotional

SpecEstimate == InitEstimate /\ [][NextEstimate]_vars

\* ------------------------------------------------------------------------
\* Properties
\* ------------------------------------------------------------------------
\* the step is a call of the named method (as a relation between the state
\* before and the state after)
IsRecordTradeResult ==
    \E pnl \in PnLs, nav_after \in NavsAfter :
        risk_engine' = record_trade_result(risk_engine, pnl, nav_after)

IsOnNewDay ==
    \E nav \in DayNavs : risk_engine' = on_new_day(risk_engine, nav)

\* the events a step appends to the log
NewEvents ==
    SubSeq(risk_engine'.events, Len(risk_engine.events) + 1, Len(risk_engine'.events))

CountType(evts, type) == Cardinality({i \in 1..Len(evts) : evts[i].type = type})
CountReason(evts, reason) == Cardinality({i \in 1..Len(evts) : evts[i].reason = reason})

\* today's realized loss is at least daily_loss_limit_pct percent of the
\* start-of-day NAV (which is positive)
LossAtLimit(e) ==
    /\ e.start_of_day_nav # None
    /\ RLt(Zero, e.start_of_day_nav)
    /\ RLt(e.daily_realized_pnl, Zero)
    /\ RLe(RMul(e.daily_loss_limit_pct, e.start_of_day_nav),
           RMul(RNeg(e.daily_realized_pnl), Hundred))

\* C1: after on_new_day(nav) with nav > 0, every record_trade_result call
\* that leaves today's loss at or beyond the limit ends blocked, and a
\* daily_loss_limit event is appended exactly by the call that turns the
\* latch on (so once per day, the latch staying on until on_new_day).
C1_DailyLossLatch ==
    [][ /\ (LossAtLimit(risk_engine') /\ ~risk_engine'.blocked_for_day)
            => ~IsRecordTradeResult
        /\ CountType(NewEvents, "daily_loss_limit")
            = IF ~risk_engine.blocked_for_day /\ risk_engine'.blocked_for_day
              THEN 1 ELSE 0
        /\ risk_engine.blocked_for_day
            => CountType(NewEvents, "daily_loss_limit") = 0 ]_vars

\* a second losing call after the limit was crossed: still one event
C1_Witness ==
    /\ risk_engine.blocked_for_day
    /\ risk_engine.start_of_day_nav = F(100)
    /\ risk_engine.daily_realized_pnl = F(-2)
    /\ risk_engine.daily_loss_limit_pct = One
    /\ CountType(risk_engine.events, "daily_loss_limit") = 1

\* C2: blocked_for_day, once true, stays true through record_trade_result
\* and evaluate_proposal calls; only on_new_day sets it back to false.
C2_LatchUntilNewDay ==
    [][ (risk_engine.blocked_for_day /\ ~risk_engine'.blocked_for_day)
            => IsOnNewDay ]_vars

\* blocked, then a profitable call brought today's PnL back to zero, and a
\* proposal was vetoed meanwhile
C2_Witness ==
    /\ risk_engine.blocked_for_day
    /\ risk_engine.start_of_day_nav = F(100)
    /\ risk_engine.daily_realized_pnl = Zero
    /\ risk_engine.consecutive_wins > 0
    /\ CountType(risk_engine.events, "risk_vetoed") > 0

\* the cycle has evaluated its proposals
Decided == pc \in {"decided", "finalized"}

\* C3: while blocked_for_day is true, evaluate_proposal answers allow=false,
\* scale=0, reason daily_loss_blocked for every proposal, and a full cycle
\* propose_positions -> apply_risk_engine -> finalize_orders yields no order.
C3_BlockedVetoesAll ==
    risk_engine.blocked_for_day =>
        /\ \A req \in Requests :
               LET d == evaluate_proposal(risk_engine, [suggested_risk_pct |-> req]).decision
               IN  ~d.allow /\ d.scale = Zero /\ d.reason = "daily_loss_blocked"
        /\ Decided =>
               \A i \in 1..Len(decisions) :
                   /\ ~decisions[i].allow
                   /\ decisions[i].scale = Zero
                   /\ decisions[i].reason = "daily_loss_blocked"
        /\ pc = "finalized" => orders = <<>>

\* a finished cycle on a blocked engine with two vetoed proposals
C3_Witness ==
    /\ risk_engine.blocked_for_day
    /\ pc = "finalized"
    /\ Len(proposals) = 2
    /\ Len(decisions) = 2
    /\ orders = <<>>

\* what C4 says of one decision for a proposal of the given requested risk
ScaledAsClaimed(e, requested, d) ==
    /\ d.allow => (RLt(Zero, d.scale) /\ RLe(d.scale, One))
    /\ ~d.allow => d.scale = Zero
    /\ (~e.blocked_for_day /\ requested # None /\ RLt(Zero, requested)) =>
           /\ d.allow
           /\ d.scale = RMin(One, RDiv(e.current_risk_pct, requested))
           /\ d.adjusted_risk_pct = RMul(requested, d.scale)

\* C4: on an unblocked engine a proposal with requested risk-pct > 0 is
\* allowed with scale = min(1, current_risk_pct / requested) and
\* adjusted_risk_pct = requested * scale; allowed decisions have
\* 0 < scale <= 1 and rejected ones have scale = 0.
C4_ScaleIsCapRatio ==
    /\ \A req \in Requests :
           ScaledAsClaimed(risk_engine, req,
               evaluate_proposal(risk_engine, [suggested_risk_pct |-> req]).decision)
    /\ Decided =>
           \A i \in 1..Len(decisions) :
               ScaledAsClaimed(risk_engine, decisions[i].proposal.suggested_risk_pct,
                               decisions[i])

\* the scenario of the tests: requested 2.0 against a cap of 1.0 gives 0.5
C4_Witness ==
    /\ Decided
    /\ ~risk_engine.blocked_for_day
    /\ risk_engine.current_risk_pct = One
    /\ \E i \in 1..Len(decisions) :
           /\ decisions[i].proposal.suggested_risk_pct = F(2)
           /\ decisions[i].allow
           /\ decisions[i].scale = Rat(1, 2)
           /\ decisions[i].adjusted_risk_pct = One

\* the indices of the decisions that finalize_orders turns into orders
RECURSIVE AllowedIndices(_, _)
AllowedIndices(decs, i) ==
    IF i > Len(decs) THEN <<>>
    ELSE IF decs[i].allow /\ RLt(Zero, decs[i].scale)
         THEN <<i>> \o AllowedIndices(decs, i + 1)
         ELSE AllowedIndices(decs, i + 1)

LossRuns(n) ==
    { [i \in 1..n |-> Trade(c[i][1], c[i][2])] :
          c \in [1..n -> {p \in PnLs : RLe(p, Zero)} \X NavsAfter] }

\* _apply_reduction would change current_risk_pct
CanReduce(e) ==
    /\ e.reduction_steps < e.max_reduction_steps
    /\ RMax(RMul(e.current_risk_pct, e.consecutive_loss_multiplier), e.min_risk_pct)
           # e.current_risk_pct

EventsSince(e, later) == SubSeq(later.events, Len(e.events) + 1, Len(later.events))

\* C6 as stated: from a loss streak of 0, T consecutive losing calls
\* (T = consecutive_losses_threshold) fire exactly one reduction of
\* current_risk_pct in total and leave consecutive_losses = 0.
C6_Original ==
    risk_engine.consecutive_losses = 0 =>
        \A run \in LossRuns(risk_engine.consecutive_losses_threshold) :
            LET after == Replay(risk_engine, run)
            IN  /\ after.reduction_steps = risk_engine.reduction_steps + 1
                /\ after.consecutive_losses = 0

\* C6 (amended): from a loss streak of 0, T consecutive losing calls fire
\* the consecutive-loss trigger exactly once, at the T-th call and not
\* before, and leave consecutive_losses = 0.  The trigger reduces
\* current_risk_pct by one step when a reduction is possible
\* (reduction_steps < max_reduction_steps and max(current * multiplier,
\* floor) differs from current) and by none otherwise; any further
\* reduction of the run comes from the drawdown trigger.
C6_OneTriggerPerStreak ==
    risk_engine.consecutive_losses = 0 =>
        LET T == risk_engine.consecutive_losses_threshold
        IN  \A first \in LossRuns(T - 1) :
                LET before == Replay(risk_engine, first)
                IN  /\ before.consecutive_losses = T - 1
                    /\ CountReason(EventsSince(risk_engine, before),
                                   "consecutive_losses") = 0
                    /\ \A last \in LossRuns(1) :
                           LET after == Replay(before, last)
                               evts == EventsSince(risk_engine, after)
                           IN  /\ after.consecutive_losses = 0
                               /\ CountReason(evts, "consecutive_losses") <= 1
                               /\ CountReason(evts, "max_drawdown") = 0 =>
                                      after.reduction_steps
                                          = risk_engine.reduction_steps
                                            + (IF CanReduce(risk_engine) THEN 1 ELSE 0)
                               /\ after.reduction_steps - risk_engine.reduction_steps
                                      <= 1 + CountReason(evts, "max_drawdown")

\* three losses under threshold 3 ended in one reduction and streak 0
C6_Witness ==
    /\ risk_engine.consecutive_losses_threshold = 3
    /\ risk_engine.consecutive_losses = 0
    /\ risk_engine.consecutive_wins = 0
    /\ risk_engine.reduction_steps = 1
    /\ risk_engine.current_risk_pct = Rat(1, 2)
    /\ risk_engine.events = <<Event("risk_reduction", "consecutive_losses")>>

\* the triggers of a record_trade_result(pnl, nav_after) call on engine e
LossStreakQualifies(e, pnl) ==
    RLe(pnl, Zero) /\ e.consecutive_losses + 1 >= e.consecutive_losses_threshold

DrawdownQualifies(e, nav_after) ==
    LET peak == IF e.peak_nav = None \/ RLt(e.peak_nav, nav_after)
                THEN nav_after ELSE e.peak_nav
    IN  IF RLt(Zero, peak)
        THEN RLe(RMul(e.max_drawdown_limit_pct, peak),
                 RMul(RSub(peak, nav_after), Hundred))
        ELSE RLe(e.max_drawdown_limit_pct, Zero)

\* C7: once reduction_steps has reached max_reduction_steps, a qualifying
\* trigger (loss streak at threshold, drawdown at limit) reduces nothing:
\* reduction_steps stays, no risk_reduction is logged, one
\* reduction_limited event is appended per qualifying trigger, and
\* current_risk_pct stays as it is (it moves only if the same call also
\* runs a recovery step, which raises it and logs risk_recovery).
C7_LimitedAtMaxSteps ==
    [][ risk_engine.reduction_steps >= risk_engine.max_reduction_steps =>
            \A pnl \in PnLs, nav_after \in NavsAfter :
                risk_engine' = record_trade_result(risk_engine, pnl, nav_after) =>
                    /\ risk_engine'.reduction_steps = risk_engine.reduction_steps
                    /\ CountType(NewEvents, "risk_reduction") = 0
                    /\ CountType(NewEvents, "reduction_limited")
                           = (IF LossStreakQualifies(risk_engine, pnl) THEN 1 ELSE 0)
                             + (IF DrawdownQualifies(risk_engine, nav_after) THEN 1 ELSE 0)
                    /\ \/ risk_engine'.current_risk_pct = risk_engine.current_risk_pct
                       \/ /\ CountType(NewEvents, "risk_recovery") = 1
                          /\ RLt(risk_engine.current_risk_pct,
                                 risk_engine'.current_risk_pct) ]_vars

\* a trigger met the limit: the last event is reduction_limited
C7_Witness ==
    /\ risk_engine.reduction_steps = risk_engine.max_reduction_steps
    /\ risk_engine.events # <<>>
    /\ risk_engine.events[Len(risk_engine.events)].type = "reduction_limited"
    /\ risk_engine.current_risk_pct = Rat(1, 2)

\* C8: with 0 < consecutive_loss_multiplier <= 1 and
\* recovery_step_pct_of_initial >= 0, in every reachable state
\* min_risk_pct <= current_risk_pct <= initial_risk_pct.
C8_RiskWithinBounds ==
    (/\ RLt(Zero, risk_engine.consecutive_loss_multiplier)
     /\ RLe(risk_engine.consecutive_loss_multiplier, One)
     /\ RLe(Zero, risk_engine.recovery_step_pct_of_initial))
    => /\ RLe(risk_engine.min_risk_pct, risk_engine.current_risk_pct)
       /\ RLe(risk_engine.current_risk_pct, risk_engine.initial_risk_pct)

\* reduced once, then recovered in two steps, the second cut at the initial
\* value
C8_Witness ==
    /\ risk_engine.reduction_steps = 1
    /\ CountType(risk_engine.events, "risk_recovery") = 2
    /\ risk_engine.current_risk_pct = risk_engine.initial_risk_pct

InsertAt(sigs, k, x) == SubSeq(sigs, 1, k) \o <<x>> \o SubSeq(sigs, k + 1, Len(sigs))

\* the position in sigs of the representative of a symbol and source
RepIndex(sigs, symbol, source) ==
    CHOOSE i \in 1..Len(sigs) :
        /\ sigs[i] = representative(of_source(of_symbol(sigs, symbol), source))
        /\ \A j \in 1..(i - 1) : sigs[j] # sigs[i]

\* what a proposal list says of a symbol: the claimed fields of its
\* proposals
ProposedFor(props, symbol) ==
    LET idx == {i \in 1..Len(props) : props[i].symbol = symbol}
    IN  { [combined_score |-> props[i].combined_score,
           suggested_risk_pct |-> props[i].suggested_risk_pct,
           suggested_stop_pct |-> props[i].suggested_stop_pct,
           suggested_notional |-> props[i].suggested_notional,
           units |-> props[i].units] : i \in idx }

TraceComplete ==
    /\ Len(trace) = 1
    /\ trace[1].signals = signals
    /\ Len(trace[1].risk_decisions) = Len(proposals)
    /\ Len(trace[1].proposals) = Len(proposals)
    /\ \A i \in 1..Len(proposals) :
           /\ trace[1].proposals[i] = proposals[i]
           /\ trace[1].risk_decisions[i] = decisions[i]
           /\ trace[1].risk_decisions[i].proposal = proposals[i]
    /\ trace[1].orders = orders

C12_WriteFailureHarmless ==
    /\ pc # "raised"
    /\ pc = "finalized" =>
           LET good == finalize_orders(signals, decisions, equity, TRUE)
           IN  /\ ~good.raised
               /\ orders = good.returned

\* the write failed and the call still returned its orders
C12_Witness ==
    /\ pc = "finalized"
    /\ ~write_ok
    /\ trace = <<>>
    /\ Len(orders) = 2

\* C13: a failing trace write is surfaced: what the caller holds after
\* finalize_orders (the value returned or an exception, and the events the
\* risk engine recorded) differs from what it would hold had the write
\* succeeded.
C13_FailureSurfaced ==
    (pc = "finalized" /\ ~write_ok) =>
        LET good == finalize_orders(signals, decisions, equity, TRUE)
        IN  <<good.returned, good.raised, risk_engine.events>>
                # <<orders, FALSE, risk_engine.events>>

\* the levels a depth query reads, and its best price
QueryLevels ==
    LET nb == _normalize_orderbook(depth.orderbook)
    IN  IF is_buy(depth.side) THEN nb.asks ELSE nb.bids

QueryBest ==
    IF depth.best_price = None THEN QueryLevels[1].price ELSE depth.best_price

\* the weighted-average price at which the query's cap fills
FillPrice ==
    LET c == consume_levels(QueryLevels, depth.allowed, Zero, Zero)
    IN  RDiv(c.sum_krw, c.sum_amount)

C15_NullOnlyForEmptyBook ==
    (depth.pc # "idle" /\ depth.pc # "start") =>
        (depth.allowed = None => QueryLevels = <<>>)

\* the risk percentage a call asks for (the configured one by default)
RequestedPct(pct) == IF pct = None THEN F(RISK_PER_TRADE_PCT) ELSE pct

\* C16: size_from_risk is monotonic non-decreasing in risk_pct: for fixed
\* equity > 0, entry and stop, a larger risk_pct never gives a smaller
\* position_krw, below the equity cap and at it.
C16_MonotonicInRiskPct ==
    (sizer.pc = "done" /\ RLt(Zero, sizer.equity_krw)) =>
        \A pct2 \in RiskPcts :
            RLe(RequestedPct(sizer.risk_pct), RequestedPct(pct2)) =>
                RLe(sizer.result.position_krw,
                    size_from_risk(sizer.equity_krw, sizer.entry_price,
                                   sizer.stop_price, pct2).position_krw)

\* a position below the cap for 1 % that grows to the cap for 3 %
C16_Witness ==
    /\ sizer.pc = "done"
    /\ sizer.risk_pct = F(1)
    /\ RLt(Zero, sizer.result.position_krw)
    /\ RLt(sizer.result.position_krw,
           RMul(sizer.equity_krw, RDiv(F(MAX_SINGLE_ORDER_PCT), Hundred)))
    /\ size_from_risk(sizer.equity_krw, sizer.entry_price,
                      sizer.stop_price, F(3)).position_krw
           = RMul(sizer.equity_krw, RDiv(F(MAX_SINGLE_ORDER_PCT), Hundred))

\* C17: the position_krw returned by size_from_risk is either 0 (with
\* amount 0 and actual_risk_pct 0) or lies between MIN_ORDER_KRW and
\* equity * MAX_SINGLE_ORDER_PCT / 100; when it is not 0, actual_risk_pct is
\* at most the requested risk_pct.
C17_ZeroOrWithinLimits ==
    sizer.pc = "done" =>
        LET r == sizer.result
        IN  IF r.position_krw = Zero
            THEN r.amount = Zero /\ r.actual_risk_pct = Zero
            ELSE /\ RLe(F(MIN_ORDER_KRW), r.position_krw)
                 /\ RLe(r.position_krw,
                        RMul(sizer.equity_krw, RDiv(F(MAX_SINGLE_ORDER_PCT), Hundred)))
                 /\ RLe(r.actual_risk_pct, RequestedPct(sizer.risk_pct))

\* a position cut to the cap, whose actual risk is below the requested one
C17_Witness ==
    /\ sizer.pc = "done"
    /\ sizer.result.position_krw
           = RMul(sizer.equity_krw, RDiv(F(MAX_SINGLE_ORDER_PCT), Hundred))
    /\ RLt(Zero, sizer.result.actual_risk_pct)
    /\ RLt(sizer.result.actual_risk_pct, RequestedPct(sizer.risk_pct))

\* the depth was unknown at the slice of a ledger entry
DepthUnknown(rec) ==
    IF rec.status = "skipped_too_small" THEN rec.allowed = None
    ELSE rec.reason = "no_depth_info_reduced_50pct"

\* the sum of the actual notionals of the slices that were simulated or
\* submitted
RECURSIVE SumExecuted(_)
SumExecuted(ledger) ==
    IF ledger = <<>> THEN Zero
    ELSE RAdd(IF Head(ledger).status \in {"simulated", "submitted"}
              THEN Head(ledger).actual ELSE Zero,
              SumExecuted(Tail(ledger)))

C19_SummaryAccounts ==
    twap.pc = "done" =>
        LET sm == twap.summary
            ledger == twap.slices_executed
        IN  /\ RAdd(sm.executed_notional_krw, sm.remaining_notional_krw)
                   = sm.requested_notional_krw
            /\ RLe(Zero, sm.remaining_notional_krw)
            /\ RLe(sm.remaining_notional_krw, sm.requested_notional_krw)
            /\ sm.executed_notional_krw = SumExecuted(ledger)
            /\ sm.slices_executed
                   = Cardinality({k \in 1..Len(ledger) :
                                     ledger[k].status \in {"simulated", "submitted"}})

\* C20: every signal process_pending has dealt with is resolved (blocked,
\* ignored, simulated, submitted or failed, not pending), and a signal that
\* went through execute_twap is simulated in a dry run and submitted in a
\* live one.
C20_EverySignalResolved ==
    /\ \A id \in executor.processed :
           db[id] \in {"blocked", "ignored", "simulated", "submitted", "failed"}
    /\ \A id \in executor.via_twap :
           db[id] = IF executor.dry_run THEN "simulated" ELSE "submitted"

\* C21: an execute call attempts its statement at most twice; after a
\* failed first attempt it reconnects once and retries once (one more
\* execute call), without a failed first attempt it does neither, and a
\* failed second attempt is raised to the caller.
C21_SingleReconnectRetry ==
    dbcall.pc = "done" =>
        LET r == dbcall.result
        IN  /\ Len(r.results) <= 2
            /\ IF r.results # <<>> /\ ~r.results[1]
               THEN r.reconnects = 1 /\ r.calls = 2
               ELSE r.reconnects = 0 /\ r.calls = 1
            /\ (Len(r.results) = 2 /\ ~r.results[2]) => r.raised
            /\ r.raised => db = r.table /\ r.results \in {<<>>, <<FALSE>>, <<FALSE, FALSE>>}

\* both attempts failed and the caller got the exception
C21_Witness ==
    /\ dbcall.pc = "done"
    /\ dbcall.result.results = <<FALSE, FALSE>>
    /\ dbcall.result.raised

\* the levels are in the order of the side: prices ascending for asks,
\* descending for bids
SortedByPrice(levels, descending) ==
    \A i \in 1..Len(levels) - 1 :
        IF descending THEN RLe(levels[i + 1].price, levels[i].price)
        ELSE RLe(levels[i].price, levels[i + 1].price)

\* the argument has none of the shapes _normalize_orderbook knows
Unrecognized(ob) ==
    \/ ob.shape \in {"falsy", "other"}
    \/ /\ ob.units_ok /\ ob.units = <<>>
       /\ ob.lists_ok /\ ob.asks = <<>> /\ ob.bids = <<>>

\* C22: _normalize_orderbook never raises; for every argument it returns a
\* snapshot with asks in ascending and bids in descending order of price,
\* and the empty snapshot for an argument of no known shape.
C22_NormalizeNeverRaises ==
    norm.pc = "done" =>
        /\ ~norm.result.raised
        /\ SortedByPrice(norm.result.asks, FALSE)
        /\ SortedByPrice(norm.result.bids, TRUE)
        /\ Unrecognized(norm.ob) => norm.result.asks = <<>> /\ norm.result.bids = <<>>

\* point i completes hysteresis_period consecutive points with the same raw
\* label, all of them met while the active label was the one before point i
\* and different from it
CompletesRun(points, labels, period, i) ==
    /\ i - period + 1 >= 2
    /\ \A j \in (i - period + 1)..i :
           /\ _raw_label(points[j]) = _raw_label(points[i])
           /\ labels[j - 1] = labels[i - 1]
    /\ _raw_label(points[i]) # labels[i - 1]

\* C23: classify_series returns one label per point; the first is the
\* first point's raw label; afterwards the label changes exactly at the
\* points that complete hysteresis_period consecutive points with the same
\* raw label different from the active one, and becomes that raw label.
C23_HysteresisSwitch ==
    regime.pc = "done" =>
        LET points == regime.points
            labels == regime.labels
        IN  /\ Len(labels) = Len(points)
            /\ points # <<>> => labels[1] = _raw_label(points[1])
            /\ \A i \in 2..Len(points) :
                   IF CompletesRun(points, labels, regime.hysteresis_period, i)
                   THEN labels[i] = _raw_label(points[i])
                   ELSE labels[i] = labels[i - 1]

\* a candidate is interrupted by the active label, starts again and then
\* completes its run
C23_Witness ==
    /\ regime.pc = "done"
    /\ regime.hysteresis_period = 2
    /\ Len(regime.points) = 5
    /\ [i \in 1..5 |-> _raw_label(regime.points[i])]
           = <<"trend_up", "range", "trend_up", "range", "range">>
    /\ regime.labels = <<"trend_up", "trend_up", "trend_up", "trend_up", "range">>

\* the reduction triggers that fire in record_trade_result(pnl, nav_after)
\* on engine e: the loss streak at its threshold, the drawdown at its limit
TriggersFired(e, pnl, nav_after) ==
    (IF LossStreakQualifies(e, pnl) THEN 1 ELSE 0)
    + (IF DrawdownQualifies(e, nav_after) THEN 1 ELSE 0)

\* C24: every reduction trigger is either applied, which appends
\* risk_reduction and adds exactly one to reduction_steps, or not applied
\* (at the floor, or at max_reduction_steps), which appends
\* reduction_limited and changes neither reduction_steps nor
\* current_risk_pct (which otherwise moves only by a recovery step).
C24_UnappliedTriggerIsLogged ==
    [][ \A pnl \in PnLs, nav_after \in NavsAfter :
            risk_engine' = record_trade_result(risk_engine, pnl, nav_after) =>
                LET applied == CountType(NewEvents, "risk_reduction")
                    limited == CountType(NewEvents, "reduction_limited")
                IN  /\ applied + limited = TriggersFired(risk_engine, pnl, nav_after)
                    /\ risk_engine'.reduction_steps = risk_engine.reduction_steps + applied
                    /\ (applied = 0 /\ CountType(NewEvents, "risk_recovery") = 0) =>
                           risk_engine'.current_risk_pct = risk_engine.current_risk_pct
      ]_vars

\* C25: on an unblocked engine evaluate_proposal answers a request of at
\* most 0, exactly 0 included, with allow = true and scale = 1, whatever
\* current_risk_pct is.
C25_NonPositivePassesThrough ==
    \A req \in Requests \ {None} :
        (~risk_engine.blocked_for_day /\ RLe(req, Zero)) =>
            LET d == evaluate_proposal(risk_engine, [suggested_risk_pct |-> req]).decision
            IN  d.allow /\ d.scale = One

IsEvaluateProposal ==
    \E req \in Requests :
        risk_engine' = evaluate_proposal(risk_engine, [suggested_risk_pct |-> req]).engine

OnlyLogsDecision(e, r) ==
    /\ r.engine = [e EXCEPT !.events = @ \o r.decision.events]
    /\ Len(r.decision.events) <= 1
    /\ \A i \in 1..Len(r.decision.events) :
           r.decision.events[i].type \in {"risk_vetoed", "risk_scaled"}
    /\ (r.decision.allow /\ r.decision.scale = One) => r.decision.events = <<>>

C27_NewDayKeepsCapAndStreaks ==
    [][ \A nav \in DayNavs :
            risk_engine' = on_new_day(risk_engine, nav) =>
                /\ risk_engine'.start_of_day_nav = nav
                /\ risk_engine'.daily_realized_pnl = Zero
                /\ risk_engine'.blocked_for_day = FALSE
                /\ risk_engine'.peak_nav =
                       IF risk_engine.peak_nav = None THEN nav
                       ELSE RMax(risk_engine.peak_nav, nav)
                /\ risk_engine'.current_risk_pct = risk_engine.current_risk_pct
                /\ risk_engine'.reduction_steps = risk_engine.reduction_steps
                /\ risk_engine'.consecutive_losses = risk_engine.consecutive_losses
                /\ risk_engine'.consecutive_wins = risk_engine.consecutive_wins
                /\ risk_engine'.events = risk_engine.events
      ]_vars

\* a new day has begun below the peak on an engine that was blocked and
\* reduced the day before: the block is lifted, the reduced cap and the
\* loss streak are still there
C27_Witness ==
    /\ ~risk_engine.blocked_for_day
    /\ CountType(risk_engine.events, "daily_loss_limit") > 0
    /\ risk_engine.daily_realized_pnl = Zero
    /\ risk_engine.start_of_day_nav # None
    /\ risk_engine.peak_nav # None
    /\ RLt(risk_engine.start_of_day_nav, risk_engine.peak_nav)
    /\ risk_engine.reduction_steps > 0
    /\ RLt(risk_engine.current_risk_pct, risk_engine.initial_risk_pct)
    /\ risk_engine.consecutive_losses > 0

\* amount and notional of the first k levels
RECURSIVE PrefixAmount(_, _)
PrefixAmount(levels, k) ==
    IF k = 0 THEN Zero ELSE RAdd(PrefixAmount(levels, k - 1), levels[k].size)

RECURSIVE PrefixKrw(_, _)
PrefixKrw(levels, k) ==
    IF k = 0 THEN Zero
    ELSE RAdd(PrefixKrw(levels, k - 1), RMul(levels[k].price, levels[k].size))

\* the average price of the first k levels is on the good side of the
\* target (nothing taken yet counts as good)
PrefixWithin(levels, k, target, buy) ==
    \/ RLe(PrefixAmount(levels, k), Zero)
    \/ IF buy
       THEN RLe(PrefixKrw(levels, k), RMul(target, PrefixAmount(levels, k)))
       ELSE RLe(RMul(target, PrefixAmount(levels, k)), PrefixKrw(levels, k))

\* the number of leading levels that can be absorbed whole
WholeLevels(levels, target, buy) ==
    CHOOSE k \in 0..Len(levels) :
        /\ \A j \in 1..k : PrefixWithin(levels, j, target, buy)
        /\ k < Len(levels) => ~PrefixWithin(levels, k + 1, target, buy)

QueryTarget ==
    IF is_buy(depth.side)
    THEN RMul(QueryBest, RAdd(One, depth.max_slippage_pct))
    ELSE RMul(QueryBest, RSub(One, depth.max_slippage_pct))

\* the amount of the breaching level inside the returned notional
PartialAmount ==
    LET k == WholeLevels(QueryLevels, QueryTarget, is_buy(depth.side))
    IN  RDiv(RSub(depth.allowed, PrefixKrw(QueryLevels, k)), QueryLevels[k + 1].price)

ThreeLevelAsks ==
    << [price |-> F(100), size |-> F(1)],
       [price |-> F(101), size |-> F(2)],
       [price |-> F(105), size |-> F(10)] >>

\* C28: for a buy the returned notional is that of the leading ask levels
\* whose cumulative average stays at most best * (1 + bound), plus, at the
\* first level that would breach, the part x of it (0 <= x <= size) that
\* puts the cumulative average exactly at the target; nothing deeper
\* contributes, and without a breach it is the notional of the whole book.
\* Asks (100,1), (101,2), (105,10) with bound 0.5 % and best 100 give 201.
C28_BuyPartialAtTarget ==
    (depth.pc \in {"computed", "estimated"} /\ is_buy(depth.side)
        /\ depth.allowed # None) =>
        LET k == WholeLevels(QueryLevels, QueryTarget, TRUE)
        IN  /\ IF k = Len(QueryLevels)
               THEN depth.allowed = PrefixKrw(QueryLevels, k)
               ELSE /\ RLe(Zero, PartialAmount)
                    /\ RLe(PartialAmount, QueryLevels[k + 1].size)
                    /\ depth.allowed =
                           RMul(QueryTarget,
                                RAdd(PrefixAmount(QueryLevels, k), PartialAmount))
            /\ (depth.orderbook.asks = ThreeLevelAsks
                   /\ depth.max_slippage_pct = Rat(1, 200)
                   /\ depth.best_price \in {None, F(100)}) =>
                   depth.allowed = F(201)

\* the three-level scenario with the best price given as a hint: level 1
\* whole, one unit of level 2, nothing of level 3
C28_Witness ==
    /\ depth.pc = "computed"
    /\ depth.side = "buy"
    /\ depth.orderbook.asks = ThreeLevelAsks
    /\ depth.max_slippage_pct = Rat(1, 200)
    /\ depth.best_price = F(100)
    /\ depth.allowed = F(201)
    /\ WholeLevels(QueryLevels, QueryTarget, TRUE) = 1
    /\ PartialAmount = One

\* C29: for a sell, when absorbing a whole bid level would push the
\* cumulative average below best * (1 - bound) and the average before it is
\* strictly above that target, the returned notional holds a positive part
\* of the breaching level, the part (at most the level's size) that keeps
\* the cumulative average exactly at the target.
C29_SellPartialAtTarget ==
    (depth.pc \in {"computed", "estimated"} /\ ~is_buy(depth.side)
        /\ QueryLevels # <<>>) =>
        LET k == WholeLevels(QueryLevels, QueryTarget, FALSE)
        IN  (/\ k < Len(QueryLevels)
             /\ RLt(Zero, PrefixAmount(QueryLevels, k))
             /\ RLt(RMul(QueryTarget, PrefixAmount(QueryLevels, k)),
                    PrefixKrw(QueryLevels, k))) =>
                /\ depth.allowed # None
                /\ RLt(Zero, PartialAmount)
                /\ RLe(PartialAmount, QueryLevels[k + 1].size)
                /\ depth.allowed =
                       RMul(QueryTarget,
                            RAdd(PrefixAmount(QueryLevels, k), PartialAmount))

\* the summed notional of the levels an estimate reads
BookNotional == PrefixKrw(QueryLevels, Len(QueryLevels))

\* the estimate is asked for a notional above zero that the book covers
Covered ==
    /\ depth.pc = "answered"
    /\ QueryLevels # <<>>
    /\ RLt(Zero, depth.notional_krw)
    /\ RLe(depth.notional_krw, BookNotional)

\* the average price of filling the notional from the best level outward:
\* the levels before the one that completes it whole, that one in part
AveragePrice ==
    LET k == CHOOSE j \in 0..(Len(QueryLevels) - 1) :
                 /\ RLt(PrefixKrw(QueryLevels, j), depth.notional_krw)
                 /\ RLe(depth.notional_krw, PrefixKrw(QueryLevels, j + 1))
        part == RDiv(RSub(depth.notional_krw, PrefixKrw(QueryLevels, k)),
                     QueryLevels[k + 1].price)
    IN  RDiv(depth.notional_krw, RAdd(PrefixAmount(QueryLevels, k), part))

\* what C30 says of a covered notional
EstimateAsClaimed ==
    /\ depth.slippage # None
    /\ IF is_buy(depth.side)
       THEN depth.slippage = RSub(RDiv(AveragePrice, QueryBest), One)
       ELSE RLe(Zero, depth.slippage)

\* C30 as stated: the estimate is None whenever the summed notional of the
\* side is below the requested notional, and the call never raises; for
\* every requested notional above 0 that the book covers it is a number,
\* at least 0 for a sell and the signed avg/best - 1 for a buy.
C30_Original ==
    /\ (depth.pc = "answered" /\ RLt(BookNotional, depth.notional_krw)) =>
           depth.slippage = None
    /\ Covered => EstimateAsClaimed

\* C30: the estimate is None whenever the summed notional of the side is
\* below the requested notional, and the call never raises (a book whose
\* normalization raises gives None); for every requested notional above 0
\* that the book covers and a best price other than 0 it is a number, at
\* least 0 for a sell and the signed avg/best - 1 for a buy; with a best
\* price of 0 it is None.
C30_EstimateOrNone ==
    /\ (depth.pc = "answered" /\ RLt(BookNotional, depth.notional_krw)) =>
           depth.slippage = None
    /\ (depth.pc = "answered" /\ _normalize_orderbook(depth.orderbook).raised) =>
           depth.slippage = None
    /\ Covered =>
           IF QueryBest = Zero THEN depth.slippage = None ELSE EstimateAsClaimed

\* a buy that fills two levels below the hinted best price: the estimate
\* is the negative avg/best - 1
C30_Witness ==
    /\ Covered
    /\ is_buy(depth.side)
    /\ depth.best_price = F(110)
    /\ depth.notional_krw = F(201)
    /\ RLt(PrefixKrw(QueryLevels, 1), depth.notional_krw)
    /\ depth.slippage # None
    /\ RLt(depth.slippage, Zero)

\* the last entry of a ledger
LastSlice(ledger) == ledger[Len(ledger)]

\* a slice that was attempted: simulated, submitted or failed
Attempted(rec) == rec.status \in {"simulated", "submitted", "failed"}

\* what C31 says of slice number i of a run with remainder R: the planned
\* notional
ClaimedPlanned(t, i, R) ==
    IF i < t.slices THEN RMin(RDiv(t.total_notional_krw, F(t.slices)), R) ELSE R

\* what C31 says of the actual notional
ClaimedActual(planned, allowed, R) ==
    IF allowed # None THEN RMin(RMin(planned, allowed), R)
    ELSE RMin(RDiv(planned, F(2)), R)

\* the entry a pass of the loop appends agrees with C31, allowed being the
\* depth cap of the pass
SliceAsClaimed(t, rec, allowed) ==
    LET planned == ClaimedPlanned(t, rec.slice, t.remaining)
        actual == ClaimedActual(planned, allowed, t.remaining)
    IN  /\ rec.requested = planned
        /\ Attempted(rec) =>
               /\ rec.actual = actual
               /\ RLe(t.min_slice_krw, rec.actual)
               /\ RLe(rec.actual, planned)
               /\ allowed # None => RLe(rec.actual, allowed)
        /\ ~Attempted(rec) => RLt(actual, t.min_slice_krw)

\* C31: slice i of N with remainder R plans min(total/N, R) when i < N and
\* R when i = N; its actual notional is min(planned, allowed, R) when a
\* depth estimate exists and min(planned/2, R) when there is none (no
\* book, or the depth check switched off); every slice recorded as
\* simulated, submitted or failed has min_slice <= actual <= planned, and
\* actual <= allowed when allowed exists.
C31_SliceWithinPlanAndDepth ==
    (twap.pc = "loop" /\ ~LoopEnds(twap)) =>
        \A orderbook \in slice_orderbooks(twap, TwapBooks(twap.side)), fault \in Faults :
            LET best_price == slice_best_price(twap, orderbook)
            IN  SliceAsClaimed(twap,
                               LastSlice(twap_slice(twap, orderbook, fault).slices_executed),
                               allowed_notional(twap, orderbook, best_price))

\* a run whose second slice was cut down to the depth of the book
C31_Witness ==
    /\ twap.pc = "done"
    /\ Len(twap.slices_executed) >= 2
    /\ LET rec == twap.slices_executed[2]
       IN  /\ rec.status = "submitted"
           /\ rec.reason = ""
           /\ RLt(rec.actual, rec.requested)

\* ledger is the beginning of longer
IsPrefix(ledger, longer) ==
    /\ Len(ledger) <= Len(longer)
    /\ \A k \in 1..Len(ledger) : longer[k] = ledger[k]

\* the slice numbers of a ledger are 1, 2, 3, ... and a skipped slice is
\* its last entry, with actual 0
WellNumbered(ledger) ==
    \A k \in 1..Len(ledger) :
        /\ ledger[k].slice = k
        /\ ledger[k].status = "skipped_too_small" =>
               (k = Len(ledger) /\ ledger[k].actual = Zero)

\* C32: a slice whose actual notional is below the minimum slice notional
\* appends one record 'skipped_too_small' with actual 0, leaves the
\* remaining notional as it is and ends the loop, so a skipped record is
\* the last of the ledger and there is at most one; the slice numbers of
\* the ledger are 1, 2, 3, ... and an appended record is never revised.
C32_SkipEndsTheRun ==
    [][ /\ IsPrefix(twap.slices_executed, twap'.slices_executed)
        /\ Len(twap'.slices_executed) <= Len(twap.slices_executed) + 1
        /\ WellNumbered(twap'.slices_executed)
        /\ (/\ Len(twap'.slices_executed) > Len(twap.slices_executed)
            /\ LastSlice(twap'.slices_executed).status = "skipped_too_small") =>
               (/\ twap'.remaining = twap.remaining
                /\ LoopEnds(twap'))
        /\ (twap.slices_executed # <<>>
            /\ LastSlice(twap.slices_executed).status = "skipped_too_small") =>
               twap'.slices_executed = twap.slices_executed
      ]_vars

\* a run that executed its first slice and skipped the second
C32_Witness ==
    /\ twap.pc = "done"
    /\ Len(twap.slices_executed) = 2
    /\ Attempted(twap.slices_executed[1])
    /\ twap.slices_executed[2].status = "skipped_too_small"
    /\ RLt(Zero, twap.remaining)

\* the notional the orders of a pass commit at the exchange
RECURSIVE Committed(_)
Committed(sent) ==
    IF sent = <<>> THEN Zero
    ELSE RAdd(Head(sent).krw, Committed(Tail(sent)))

\* the run is live: orders go to the exchange
IsLive(t) == ~t.dry_run /\ t.has_client

\* C33: in live mode the fallback market order of a slice covers only the
\* part of the slice the limit order did not fill, so the limit order and
\* the market order of one slice together never commit more than the
\* actual notional of the slice; with market fallback switched off no
\* market order is submitted.
C33_FallbackCoversRemainder ==
    (IsLive(twap) /\ twap.sent # <<>>) =>
        /\ RLe(Committed(twap.sent), LastSlice(twap.slices_executed).actual)
        /\ ~twap.market_fallback =>
               \A k \in 1..Len(twap.sent) : twap.sent[k].kind # "market"

\* the part of C33 about a run without market fallback
NoFallbackNoMarketOrder ==
    (IsLive(twap) /\ ~twap.market_fallback) =>
        \A k \in 1..Len(twap.sent) : twap.sent[k].kind # "market"

\* a live slice sent its limit order and then a market order of the same
\* notional
BothOrdersInFull ==
    /\ IsLive(twap)
    /\ Len(twap.sent) = 2
    /\ twap.sent[1].kind = "limit"
    /\ twap.sent[2].kind = "market"
    /\ twap.sent[1].krw = LastSlice(twap.slices_executed).actual
    /\ twap.sent[2].krw = LastSlice(twap.slices_executed).actual

\* the run has returned its summary
Returned(t) ==
    /\ t.pc = "done"
    /\ t.summary = twap_summary(t)
    /\ t.summary.slices_planned = t.slices

RECURSIVE RemainingBefore(_, _, _)
RemainingBefore(total, ledger, k) ==
    IF k <= 1 THEN total
    ELSE RSub(RemainingBefore(total, ledger, k - 1), ledger[k - 1].actual)

\* C40: a TWAP run with total > 0 whose depth is unknown at every slice
\* ends with a remaining notional > 0, whatever the number of slices,
\* because every slice, the final one included, executes at most half of
\* what remains.
C40_UnknownDepthNeverCompletes ==
    (/\ twap.pc = "done"
     /\ RLt(Zero, twap.total_notional_krw)
     /\ \A k \in 1..Len(twap.slices_executed) : DepthUnknown(twap.slices_executed[k])) =>
        LET ledger == twap.slices_executed
        IN  /\ RLt(Zero, twap.remaining)
            /\ RLt(Zero, twap.summary.remaining_notional_krw)
            /\ \A k \in 1..Len(ledger) :
                   RLe(RMul(F(2), ledger[k].actual),
                       RemainingBefore(twap.total_notional_krw, ledger, k))

\* a run of several slices, none with a depth estimate, ended after its
\* final slice took exactly half of what remained
C40_Witness ==
    /\ twap.pc = "done"
    /\ RLt(Zero, twap.total_notional_krw)
    /\ twap.slices >= 2
    /\ Len(twap.slices_executed) = twap.slices
    /\ \A k \in 1..Len(twap.slices_executed) :
           /\ DepthUnknown(twap.slices_executed[k])
           /\ Attempted(twap.slices_executed[k])
    /\ twap.remaining = LastSlice(twap.slices_executed).actual

\* the streak counters are below their thresholds and not both running
StreaksBelowThresholds(e) ==
    /\ e.consecutive_losses < e.consecutive_losses_threshold
    /\ e.consecutive_wins < e.recovery_consec_wins
    /\ e.consecutive_losses = 0 \/ e.consecutive_wins = 0

\* the counters are below their thresholds now and after any trade result
BelowAfterEveryResult ==
    /\ StreaksBelowThresholds(risk_engine)
    /\ \A pnl \in PnLs, nav_after \in NavsAfter :
           StreaksBelowThresholds(record_trade_result(risk_engine, pnl, nav_after))

\* C36: after every record_trade_result call consecutive_losses is below
\* consecutive_losses_threshold, consecutive_wins is below
\* recovery_consec_wins and at most one of the two is non-zero: a counter
\* that reaches its threshold is reset to 0 in the same call, also when
\* the reduction was limited, recovery is disabled or the cap is already
\* at its initial value.
C36_StreaksBelowThresholds == []BelowAfterEveryResult

\* a loss streak reached its threshold when no reduction was left, and
\* the counter is back at 0
C36_Witness ==
    /\ risk_engine.reduction_steps = risk_engine.max_reduction_steps
    /\ risk_engine.events # <<>>
    /\ risk_engine.events[Len(risk_engine.events)]
           = Event("reduction_limited", "consecutive_losses")
    /\ risk_engine.consecutive_losses = 0
    /\ risk_engine.consecutive_wins = 0

\* from engine state e to e2 the reduction counter and the peak NAV do not
\* fall, the counter stays within max_reduction_steps, and once the
\* counter is at its maximum the cap is not lowered
StepsAndPeakKept(e, e2) ==
    /\ e.reduction_steps <= e2.reduction_steps
    /\ e2.reduction_steps <= e2.max_reduction_steps
    /\ e.peak_nav # None => (e2.peak_nav # None /\ RLe(e.peak_nav, e2.peak_nav))
    /\ e.reduction_steps = e.max_reduction_steps =>
           RLe(e.current_risk_pct, e2.current_risk_pct)

\* every call that can be made on the engine keeps the counter and the peak
KeptByEveryCall ==
    /\ risk_engine.reduction_steps <= risk_engine.max_reduction_steps
    /\ \A pnl \in PnLs, nav_after \in NavsAfter :
           StepsAndPeakKept(risk_engine, record_trade_result(risk_engine, pnl, nav_after))
    /\ \A nav \in DayNavs :
           StepsAndPeakKept(risk_engine, on_new_day(risk_engine, nav))
    /\ \A req \in Requests :
           StepsAndPeakKept(risk_engine,
                            evaluate_proposal(risk_engine, [suggested_risk_pct |-> req]).engine)

\* C37: reduction_steps never decreases and never exceeds
\* max_reduction_steps, and peak_nav never decreases, whatever is called;
\* neither a recovery nor on_new_day resets reduction_steps, so after
\* max_reduction_steps applied reductions current_risk_pct is never
\* reduced again, also after it has recovered to initial_risk_pct.
C37_StepsAndPeakMonotone == []KeptByEveryCall

\* all reductions are used up, the cap has recovered to its initial value
\* and the next loss completes a loss streak
C37_Witness ==
    /\ risk_engine.max_reduction_steps > 0
    /\ risk_engine.reduction_steps = risk_engine.max_reduction_steps
    /\ risk_engine.current_risk_pct = risk_engine.initial_risk_pct
    /\ CountType(risk_engine.events, "risk_recovery") >= 1
    /\ risk_engine.consecutive_losses = risk_engine.consecutive_losses_threshold - 1
    /\ risk_engine.peak_nav # None

\* the daily-loss breaker is not armed: on_new_day was never called, or
\* was last called with a NAV that is not positive
Unarmed(e) == e.start_of_day_nav = None \/ RLe(e.start_of_day_nav, Zero)

\* day NAVs that do not arm the breaker
UnarmingNavs == {F(-100), Zero}

\* none of n losing trades in a row blocks the day
RECURSIVE LossesNeverBlock(_, _)
LossesNeverBlock(e, n) ==
    \/ n = 0
    \/ LET e2 == record_trade_result(e, F(-1), F(90))
       IN  ~e2.blocked_for_day /\ LossesNeverBlock(e2, n - 1)

\* an unarmed engine is not blocked and no trade result blocks it, nor do
\* the losses that follow an on_new_day call with a NAV that is not positive
UnarmedStaysOpen ==
    /\ Unarmed(risk_engine) =>
           /\ ~risk_engine.blocked_for_day
           /\ \A pnl \in PnLs, nav_after \in NavsAfter :
                  ~record_trade_result(risk_engine, pnl, nav_after).blocked_for_day
    /\ \A nav \in UnarmingNavs :
           LossesNeverBlock(on_new_day(risk_engine, nav), MaxDailyPnL + 1)

\* C39: while on_new_day has never been called (start_of_day_nav unset) or
\* was last called with nav <= 0, no record_trade_result call sets
\* blocked_for_day, however large the accumulated loss: only on_new_day
\* with a positive NAV arms the daily-loss breaker.
C39_UnarmedNeverBlocks == []UnarmedStaysOpen

\* the day began with a NAV of 0, the losses of the day have reached the
\* bound and entries are still allowed
C39_Witness ==
    /\ risk_engine.start_of_day_nav = Zero
    /\ risk_engine.daily_realized_pnl = F(-MaxDailyPnL)
    /\ risk_engine.daily_loss_triggers = 0
    /\ ~risk_engine.blocked_for_day

\* nav_after lies at least max_drawdown_limit_pct percent below the peak
DrawdownDue(e, nav_after) ==
    /\ e.peak_nav # None
    /\ RLt(Zero, e.peak_nav)
    /\ RLe(e.max_drawdown_limit_pct,
           RMul(RDiv(RSub(e.peak_nav, nav_after), e.peak_nav), Hundred))

\* steps are left and the cap is above the floor
StepsLeftAboveFloor(e) ==
    /\ e.reduction_steps < e.max_reduction_steps
    /\ RLt(e.min_risk_pct, e.current_risk_pct)

\* C38 as stated: whenever nav_after lies at least max_drawdown_limit_pct
\* percent below peak_nav, steps are left and the cap is above the floor,
\* the record_trade_result call reduces current_risk_pct, whatever the
\* sign of pnl, and reduction_steps grows by at most 2 per call.
C38_Original ==
    \A pnl \in PnLs, nav_after \in NavsAfter :
        LET e2 == record_trade_result(risk_engine, pnl, nav_after)
        IN  /\ e2.reduction_steps <= risk_engine.reduction_steps + 2
            /\ (DrawdownDue(risk_engine, nav_after) /\ StepsLeftAboveFloor(risk_engine)) =>
                   RLt(e2.current_risk_pct, risk_engine.current_risk_pct)

\* a due drawdown trigger applies a reduction, and the cap ends lower
\* unless the call also recovers
ReductionApplied ==
    \A pnl \in PnLs, nav_after \in NavsAfter :
        LET e2 == record_trade_result(risk_engine, pnl, nav_after)
        IN  /\ e2.reduction_steps <= risk_engine.reduction_steps + 2
            /\ (DrawdownDue(risk_engine, nav_after) /\ StepsLeftAboveFloor(risk_engine)) =>
                   /\ e2.reduction_steps > risk_engine.reduction_steps
                   /\ CountType(EventsSince(risk_engine, e2), "risk_reduction") >= 1
                   /\ CountType(EventsSince(risk_engine, e2), "risk_recovery") = 0 =>
                          RLt(e2.current_risk_pct, risk_engine.current_risk_pct)

\* C38: under the same conditions the call applies a reduction to
\* current_risk_pct, whatever the sign of pnl, and current_risk_pct ends
\* lower than before unless the same call also runs a recovery step;
\* together with a loss-streak reduction reduction_steps grows by at most
\* 2 per call.
C38_DrawdownReduces == []ReductionApplied

\* a winning trade at the drawdown limit completes a win streak: the call
\* reduces the cap, recovers it, and leaves it higher than before
C38_Witness ==
    /\ DrawdownDue(risk_engine, F(90))
    /\ StepsLeftAboveFloor(risk_engine)
    /\ risk_engine.consecutive_wins = risk_engine.recovery_consec_wins - 1
    /\ LET e2 == record_trade_result(risk_engine, F(1), F(90))
       IN  /\ e2.reduction_steps = risk_engine.reduction_steps + 1
           /\ EventsSince(risk_engine, e2)
                  = << Event("risk_reduction", "max_drawdown"), Event("risk_recovery", "none") >>
           /\ RLt(risk_engine.current_risk_pct, e2.current_risk_pct)

\* the decisions that lead to an order, in order
RECURSIVE Passed(_)
Passed(decs) ==
    IF decs = <<>> THEN <<>>
    ELSE (IF Head(decs).allow /\ RLt(Zero, Head(decs).scale) THEN <<Head(decs)>> ELSE <<>>)
         \o Passed(Tail(decs))

\* the part of equity an order puts at risk, and the part the cap allows
RiskOfOrder(order, stop_pct) == RMul(order.notional, RDiv(stop_pct, Hundred))
RiskAllowed(e, eq) == RMul(eq, RDiv(e.current_risk_pct, Hundred))

\* the proposal is one C35 speaks of
SizedProposal(prop) ==
    /\ RLt(Zero, prop.suggested_risk_pct)
    /\ RLe(Rat(1, 10000), prop.suggested_stop_pct)

\* C35: for a signal set with suggested risk-pct > 0 and stop-pct >=
\* 0.0001, every order of a cycle propose_positions -> apply_risk_engine
\* -> finalize_orders satisfies notional * stop_pct / 100 <= equity *
\* current_risk_pct / 100: no order risks more of equity than the engine's
\* current cap.
C35_OrderRiskWithinCap ==
    pc = "finalized" =>
        LET passed == Passed(decisions)
        IN  /\ Len(orders) = Len(passed)
            /\ \A k \in 1..Len(orders) :
                   SizedProposal(passed[k].proposal) =>
                       RLe(RiskOfOrder(orders[k], passed[k].proposal.suggested_stop_pct),
                           RiskAllowed(risk_engine, equity))

\* a cycle on an engine with a reduced cap that ends with two orders, the
\* first cut down to the cap, the second with a stop at the floor
C35_Witness ==
    /\ pc = "finalized"
    /\ RLt(risk_engine.current_risk_pct, risk_engine.initial_risk_pct)
    /\ Len(orders) = 2
    /\ Len(Passed(decisions)) = 2
    /\ \A k \in 1..2 : SizedProposal(Passed(decisions)[k].proposal)
    /\ RiskOfOrder(orders[1], Passed(decisions)[1].proposal.suggested_stop_pct)
           = RiskAllowed(risk_engine, equity)
    /\ RLt(Passed(decisions)[1].scale, One)
    /\ Passed(decisions)[2].proposal.suggested_stop_pct = Rat(1, 10000)

====
